---- MODULE Spec2Model ----
(***************************************************************************)
(* Model of the torrent streamer's core: the memory-limited chunk store    *)
(* with its global tracker (src/src/utils/memory-limited-store.ts), the    *)
(* range request handler with its bounded wait for pieces                  *)
(* (src/src/infrastructure/streaming/WebTorrentStreamService.ts) and the   *)
(* piece prioritisation (WebTorrentPieceManager.ts, TorrentExtension.ts).  *)
(* The three parts share no state: each has its own next-state relation    *)
(* and specification, over the same variables.                             *)
(***************************************************************************)
EXTENDS Integers, Sequences, FiniteSets, TLC

\* ---------------------------------------------------------------- bounds
MaxMemory == 3   \* GlobalMemoryTracker.maxMemory, scaled down
MaxSize   == 2   \* ordinary buf.length values are 1..MaxSize
MaxIndex  == 1   \* piece indices 0..MaxIndex
MaxAccess == 3   \* cap on accessCounter, so that the model is finite

PieceLength == 2   \* torrent.pieceLength, scaled down
FileSize    == 5   \* file.length: three pieces, the last one short
ChunkSize   == 3   \* config.CHUNK_SIZE, scaled down
BufferSize  == 1   \* config.BUFFER_SIZE, scaled down
InitialChunkSize == 2   \* config.INITIAL_CHUNK_SIZE, scaled down
MaxCalls == 2       \* scheduling calls on the transfer
MaxArrayLen == 4    \* longest array handed to getRanges
MaxNumber == 7      \* largest number in a parsed Range header
MaxHeaderLen == 4   \* longest Range header value after "bytes="
MaxUses == 4    \* cap on accessCounter where a get is followed by puts
MaxAdds == 3    \* calls of WebTorrentRepository.add
MaxClock == 2   \* cap on the clock, so that the model is finite

\* MAX_PRIORITIZED_PIECES of _prioritizePieces
MaxPrioritizedPieces == 100

Stores  == {"s1", "s2"}
Requests == {"r1"}
Indices == 0..MaxIndex
\* buffer lengths handed to put: the ordinary ones and one larger than the budget
Sizes   == (1..MaxSize) \cup {MaxMemory + 1}

VARIABLES
  \* GlobalMemoryTracker
  totalMemory,     \* running total of bytes
  chunks,          \* storeId -> sequence of ChunkInfo [index, size, lastUsed]
  chunkKeys,       \* the keys of the chunks Map
  accessCounter,   \* global access counter
  \* MemoryLimitedStore, per store
  evictedChunks,   \* storeId -> set of indices marked evicted
  stored,          \* storeId -> indices the underlying MemoryChunkStore holds a buffer for
  closed,          \* storeId -> the underlying store was closed
  pendingErr,      \* put callbacks of the underlying store still to be run with an error
  \* observation
  evictLog,        \* evictions performed by the most recent put, in order
  wasEvicted,      \* storeId -> indices evicted from the budget and not put again since
  \* the torrent
  metaReady,       \* the torrent is known and its pieceLength is not 0
  pieces,          \* torrent.pieces: piece index -> "null" | "partial" | "done"
  prioritized,     \* prioritizedPiecesMap of the torrent: piece index -> priority, 0 = no entry
  selectedAt,      \* selectedAt of the entries of prioritizedPiecesMap, 0 = no entry
  clock,           \* the time new Date() returns
  lastSched,       \* observation: the buffered range of the most recent scheduling step
  \* one HTTP request each
  pc,              \* "idle" | "waiting" | "streaming" | "rejected" | "failed"
  reqPieces,       \* requiredPieces of _waitForPieces: <<startPiece, endPiece>>
  reqRange,        \* the byte range the request is served for: <<start, end>>
  status,          \* status code written to the response, 0 = none yet
  contentRange,    \* Content-Range written to the response: [kind, start, end]
  subscribed,      \* checkPieces is a listener of the torrent's download and done events
  timerArmed,      \* the setTimeout of _waitForPieces is pending
  isResolved,      \* isResolved of _waitForPieces
  resolveCount,    \* observation: calls of resolve
  resolvedBy,      \* observation: "none" | "noTorrent" | "already" | "download" | "timeout"
  reader,          \* the read stream: "none" | "open" | "ended" | "errored"
  readerDestroyed, \* stream.destroyed
  handlers,        \* cleanup is a listener of req close/aborted and res close/finish
  isCleanedUp,     \* isCleanedUp of _setupStreamHandlers
  destroyCalls,    \* observation: calls of stream.destroy by cleanup
  triggers,        \* observation: calls of cleanup
  fired,           \* the events of req and res emitted so far
  resEnded,        \* res.end() was called
  \* one call of a function of the program
  chk              \* its arguments and its result: [fn, ...]

storeVars == <<totalMemory, chunks, chunkKeys, accessCounter, evictedChunks, stored,
               closed, pendingErr, evictLog, wasEvicted>>

torrentVars == <<metaReady, pieces, prioritized, selectedAt, clock, lastSched>>

requestVars == <<pc, reqPieces, reqRange, status, contentRange, subscribed, timerArmed,
                 isResolved, resolveCount, resolvedBy, reader, readerDestroyed, handlers, isCleanedUp, destroyCalls,
                 triggers, fired, resEnded>>

checkVars == <<chk>>

vars == <<storeVars, torrentVars, requestVars, checkVars>>

\* ------------------------------------------------------- helper operators
RECURSIVE SumSizes(_)
SumSizes(seq) == IF seq = <<>> THEN 0 ELSE Head(seq).size + SumSizes(Tail(seq))

RECURSIVE SumOver(_, _)
SumOver(ch, S) ==
  IF S = {} THEN 0
  ELSE LET s == CHOOSE x \in S : TRUE IN SumSizes(ch[s]) + SumOver(ch, S \ {s})

\* sum of the sizes of all chunks registered in the tracker
ResidentBytes(ch) == SumOver(ch, Stores)

\* every registered chunk: the entries of the tracker's Map, flattened
AllChunks(ch, keys) ==
  UNION { { [storeId |-> s, chunk |-> ch[s][k]] : k \in DOMAIN ch[s] } : s \in keys }

\* Array.prototype.findIndex on c.index; 0 stands for -1
FindIndex(seq, index) ==
  IF \E k \in DOMAIN seq : seq[k].index = index
  THEN CHOOSE k \in DOMAIN seq :
         seq[k].index = index /\ \A j \in 1..(k - 1) : seq[j].index # index
  ELSE 0

\* Array.prototype.splice(k, 1)
Splice(seq, k) == SubSeq(seq, 1, k - 1) \o SubSeq(seq, k + 1, Len(seq))

\* the smallest lastUsed among the registered chunks
OldestOf(all) == CHOOSE c \in all : \A d \in all : c.chunk.lastUsed <= d.chunk.lastUsed

\* the record of one eviction, for the observation variables
Eviction(T, c, incoming, phase) ==
  [storeId |-> c.storeId, index |-> c.chunk.index, size |-> c.chunk.size,
   lastUsed |-> c.chunk.lastUsed,
   oldest |-> OldestOf(AllChunks(T.chunks, T.keys)).chunk.lastUsed,
   totalBefore |-> T.total, incoming |-> incoming, phase |-> phase]

\* ---------------------------------------------------- GlobalMemoryTracker
\* The tracker's state is passed around as a record
\*   [chunks, keys, total, counter, log]
\* where log collects the evictions performed (observation only).

Tracker == [chunks |-> chunks, keys |-> chunkKeys, total |-> totalMemory,
            counter |-> accessCounter, log |-> <<>>]

\* GlobalMemoryTracker.removeChunk
RemoveChunk(T, storeId, index) ==
  IF storeId \notin T.keys THEN T
  ELSE LET k == FindIndex(T.chunks[storeId], index) IN
       IF k = 0 THEN T
       ELSE [T EXCEPT !.total = @ - T.chunks[storeId][k].size,
                      !.chunks[storeId] = Splice(@, k)]

\* an accessChunk that leaves lastUsed as it is
AccessChunkNever(T, storeId, index) == T

\* an accessChunk that stamps the chunk with the current counter value, not a new one
AccessChunkSameCounter(T, storeId, index) ==
  IF storeId \notin T.keys THEN T
  ELSE LET k == FindIndex(T.chunks[storeId], index) IN
       IF k = 0 THEN T
       ELSE [T EXCEPT !.chunks[storeId][k].lastUsed = T.counter]

\* GlobalMemoryTracker.accessChunk
AccessChunk(T, storeId, index) ==
  IF storeId \notin T.keys THEN T
  ELSE LET k == FindIndex(T.chunks[storeId], index) IN
       IF k = 0 THEN T
       ELSE [T EXCEPT !.counter = @ + 1,
                      !.chunks[storeId][k].lastUsed = T.counter + 1]

\* a removeStore that forgets to subtract the sizes from the running total
RemoveStoreKeepsTotal(T, storeId) ==
  IF storeId \notin T.keys THEN T
  ELSE [T EXCEPT !.chunks[storeId] = <<>>, !.keys = @ \ {storeId}]

\* GlobalMemoryTracker.removeStore
RemoveStore(T, storeId) ==
  IF storeId \notin T.keys THEN T
  ELSE [T EXCEPT !.total = @ - SumSizes(T.chunks[storeId]),
                 !.chunks[storeId] = <<>>,
                 !.keys = @ \ {storeId}]

\* an evictIfNeeded that never evicts
EvictIfNeededNever(T) == T

\* GlobalMemoryTracker.evictIfNeeded: while over the maximum, drop the chunk with
\* the smallest lastUsed of all stores; no store is told.
RECURSIVE EvictIfNeeded(_)
EvictIfNeeded(T) ==
  IF T.total > MaxMemory
  THEN LET all == AllChunks(T.chunks, T.keys) IN
       IF all = {} THEN T
       ELSE LET oldestChunk == OldestOf(all)
                k == FindIndex(T.chunks[oldestChunk.storeId], oldestChunk.chunk.index)
            IN EvictIfNeeded(
                 [T EXCEPT !.total = @ - oldestChunk.chunk.size,
                           !.chunks[oldestChunk.storeId] = Splice(@, k),
                           !.log = Append(@, Eviction(T, oldestChunk, 0, "evictIfNeeded"))])
  ELSE T

\* an addChunk that, for a chunk already registered, adds the new size without taking
\* the old one off the running total
AddChunkKeepsOldSize(T, storeId, index, size) ==
  LET storeChunks == IF storeId \in T.keys THEN T.chunks[storeId] ELSE <<>>
      k == FindIndex(storeChunks, index)
      T1 == IF k # 0
            THEN [T EXCEPT !.total = @ + size,
                           !.counter = @ + 1,
                           !.keys = @ \cup {storeId},
                           !.chunks[storeId] =
                              [storeChunks EXCEPT ![k].size = size,
                                                  ![k].lastUsed = T.counter + 1]]
            ELSE [T EXCEPT !.total = @ + size,
                           !.counter = @ + 1,
                           !.keys = @ \cup {storeId},
                           !.chunks[storeId] =
                              Append(storeChunks,
                                     [index |-> index, size |-> size,
                                      lastUsed |-> T.counter + 1])]
  IN EvictIfNeeded(T1)

\* GlobalMemoryTracker.addChunk
AddChunk(T, storeId, index, size) ==
  LET storeChunks == IF storeId \in T.keys THEN T.chunks[storeId] ELSE <<>>
      k == FindIndex(storeChunks, index)
      T1 == IF k # 0
            THEN [T EXCEPT !.total = @ - storeChunks[k].size + size,
                           !.counter = @ + 1,
                           !.keys = @ \cup {storeId},
                           !.chunks[storeId] =
                              [storeChunks EXCEPT ![k].size = size,
                                                  ![k].lastUsed = T.counter + 1]]
            ELSE [T EXCEPT !.total = @ + size,
                           !.counter = @ + 1,
                           !.keys = @ \cup {storeId},
                           !.chunks[storeId] =
                              Append(storeChunks,
                                     [index |-> index, size |-> size,
                                      lastUsed |-> T.counter + 1])]
  IN EvictIfNeeded(T1)

\* ------------------------------------------------------ MemoryLimitedStore
\* a sort with the comparison the wrong way round: newest first
RECURSIVE SortNewestFirst(_)
SortNewestFirst(all) ==
  IF all = {} THEN <<>>
  ELSE LET c == CHOOSE x \in all : \A d \in all : x.chunk.lastUsed >= d.chunk.lastUsed
       IN <<c>> \o SortNewestFirst(all \ {c})

\* allChunks.sort((a, b) => a.chunk.lastUsed - b.chunk.lastUsed)
RECURSIVE SortByLastUsed(_)
SortByLastUsed(all) ==
  IF all = {} THEN <<>>
  ELSE LET c == OldestOf(all) IN <<c>> \o SortByLastUsed(all \ {c})

\* the loop of MemoryLimitedStore.evictChunks over the sorted snapshot
RECURSIVE EvictLoop(_, _, _, _, _)
EvictLoop(T, allChunks, freed, requiredSize, self) ==
  IF allChunks = <<>> \/ freed >= requiredSize THEN T
  ELSE LET c == Head(allChunks)
           T1 == RemoveChunk(T, c.storeId, c.chunk.index)
       IN EvictLoop([T1 EXCEPT !.log = Append(@, Eviction(T, c, requiredSize, "evictChunks"))],
                    Tail(allChunks), freed + c.chunk.size, requiredSize, self)

\* MemoryLimitedStore.evictChunks
EvictChunks(T, self, requiredSize) ==
  EvictLoop(T, SortByLastUsed(AllChunks(T.chunks, T.keys)), 0, requiredSize, self)

\* the indices evictChunks adds to this.evictedChunks: those of the store's own chunks
MarkedEvicted(log, self) ==
  { log[k].index : k \in { j \in DOMAIN log : log[j].storeId = self /\ log[j].phase = "evictChunks" } }

\* indices of store s that a log evicts in the given phase
EvictedIn(log, s, phase) ==
  { log[k].index : k \in { j \in DOMAIN log : log[j].storeId = s /\ log[j].phase = phase } }

StoreInit ==
  /\ totalMemory = 0
  /\ chunks = [s \in Stores |-> <<>>]
  /\ chunkKeys = {}
  /\ accessCounter = 0
  /\ evictedChunks = [s \in Stores |-> {}]
  /\ stored = [s \in Stores |-> {}]
  /\ closed = [s \in Stores |-> FALSE]
  /\ pendingErr = {}
  /\ evictLog = <<>>
  /\ wasEvicted = [s \in Stores |-> {}]

\* MemoryLimitedStore.put; err: the underlying store rejects the buffer
Put(self, index, size, err) ==
  /\ accessCounter < MaxAccess
  /\ LET T0 == Tracker
         T1 == IF T0.total + size > MaxMemory THEN EvictChunks(T0, self, size) ELSE T0
         T2 == AddChunk(T1, self, index, size)
         fails == err \/ closed[self]
     IN /\ totalMemory' = T2.total
        /\ chunks' = T2.chunks
        /\ chunkKeys' = T2.keys
        /\ accessCounter' = T2.counter
        /\ evictedChunks' =
             [evictedChunks EXCEPT ![self] = (@ \cup MarkedEvicted(T2.log, self)) \ {index}]
        /\ stored' = IF fails THEN stored ELSE [stored EXCEPT ![self] = @ \cup {index}]
        /\ pendingErr' = IF fails THEN pendingErr \cup {<<self, index>>} ELSE pendingErr
        /\ evictLog' = T2.log
        /\ wasEvicted' =
             [s \in Stores |->
                ((wasEvicted[s] \cup EvictedIn(T2.log, s, "evictChunks"))
                   \ (IF s = self THEN {index} ELSE {}))
                \cup EvictedIn(T2.log, s, "evictIfNeeded")]
  /\ UNCHANGED <<closed, torrentVars, requestVars, checkVars>>

\* the error callback of the underlying store's put: tracker.removeChunk
PutFailed(self, index) ==
  /\ <<self, index>> \in pendingErr
  /\ LET T1 == RemoveChunk(Tracker, self, index)
     IN /\ totalMemory' = T1.total
        /\ chunks' = T1.chunks
        /\ chunkKeys' = T1.keys
  /\ pendingErr' = pendingErr \ {<<self, index>>}
  /\ UNCHANGED <<accessCounter, evictedChunks, stored, closed, evictLog, wasEvicted>>
  /\ UNCHANGED <<torrentVars, requestVars, checkVars>>

\* what the underlying store's get reports
UnderlyingGet(self, index) ==
  IF closed[self] THEN "closed"
  ELSE IF index \in stored[self] THEN "data" ELSE "notFound"

\* what MemoryLimitedStore.get reports to its callback
GetResult(self, index) ==
  IF index \in evictedChunks[self] THEN "notFound" ELSE UnderlyingGet(self, index)

\* MemoryLimitedStore.get
Get(self, index) ==
  /\ LET T1 == IF index \in evictedChunks[self] THEN Tracker
               ELSE AccessChunk(Tracker, self, index)
     IN /\ T1.counter <= MaxAccess
        /\ accessCounter' = T1.counter
        /\ chunks' = T1.chunks
  /\ UNCHANGED <<totalMemory, chunkKeys, evictedChunks, stored, closed, pendingErr,
                 evictLog, wasEvicted>>
  /\ UNCHANGED <<torrentVars, requestVars, checkVars>>

\* MemoryLimitedStore.close
Close(self) ==
  /\ LET T1 == RemoveStore(Tracker, self)
     IN /\ totalMemory' = T1.total
        /\ chunks' = T1.chunks
        /\ chunkKeys' = T1.keys
  /\ closed' = [closed EXCEPT ![self] = TRUE]
  /\ stored' = [stored EXCEPT ![self] = {}]
  /\ UNCHANGED <<accessCounter, evictedChunks, pendingErr, evictLog, wasEvicted>>
  /\ UNCHANGED <<torrentVars, requestVars, checkVars>>

\* MemoryLimitedStore.destroy
Destroy(self) == Close(self)

NextStore ==
  \/ \E s \in Stores, i \in Indices, z \in Sizes, e \in BOOLEAN : Put(s, i, z, e)
  \/ \E s \in Stores, i \in Indices : PutFailed(s, i)
  \/ \E s \in Stores, i \in Indices : Get(s, i)
  \/ \E s \in Stores : Close(s)
  \/ \E s \in Stores : Destroy(s)

\* ---------------------------------------------------------------- torrent
NumPieces == (FileSize + PieceLength - 1) \div PieceLength
PieceIds  == 0..(NumPieces - 1)

\* PiecePriority of TorrentWrapper.ts
NONE     == 0
LOW      == 1
NORMAL   == 2
HIGH     == 3
CRITICAL == 4

\* PIECE_PRIORITY.HIGH of HttpConstants.ts
PIECE_PRIORITY_HIGH == 1

\* the priority arguments a caller may hand to select/deselect
PriorityArgs ==
  {[kind |-> "undefined", val |-> 0], [kind |-> "boolean", val |-> 0],
   [kind |-> "boolean", val |-> 1]} \cup {[kind |-> "number", val |-> n] : n \in 0..5}

Num(n) == [kind |-> "number", val |-> n]

\* normalizePriority
normalizePriority(priority) ==
  IF priority.kind = "boolean" THEN (IF priority.val = 1 THEN HIGH ELSE NONE)
  ELSE IF priority.kind = "number"
       THEN IF priority.val <= 0 THEN NONE
            ELSE IF priority.val <= 1 THEN LOW
            ELSE IF priority.val <= 2 THEN NORMAL
            ELSE IF priority.val <= 3 THEN HIGH
            ELSE CRITICAL
       ELSE NONE

\* a select that overwrites whatever is tracked
extendedSelectOverwrites(tracked, start, end, priority) ==
  LET priorityLevel == normalizePriority(priority) IN
  IF priorityLevel > 0
  THEN [p \in DOMAIN tracked |-> IF p >= start /\ p <= end THEN priorityLevel ELSE tracked[p]]
  ELSE tracked

\* extendedSelect: the tracking of the patched torrent.select
extendedSelect(tracked, start, end, priority) ==
  LET priorityLevel == normalizePriority(priority) IN
  IF priorityLevel > 0
  THEN [p \in DOMAIN tracked |->
          IF p >= start /\ p <= end /\ (tracked[p] = 0 \/ priorityLevel >= tracked[p])
          THEN priorityLevel ELSE tracked[p]]
  ELSE tracked

\* a deselect that drops every tracked entry of the span, whatever its priority
extendedDeselectAny(tracked, start, end, priority) ==
  [p \in DOMAIN tracked |-> IF p >= start /\ p <= end THEN 0 ELSE tracked[p]]

\* extendedDeselect: the tracking of the patched torrent.deselect
extendedDeselect(tracked, start, end, priority) ==
  LET priorityLevel == normalizePriority(priority) IN
  [p \in DOMAIN tracked |->
     IF p >= start /\ p <= end /\ tracked[p] # 0 /\ tracked[p] = priorityLevel
     THEN 0 ELSE tracked[p]]

\* a select that stamps every entry it writes with now
selectedAtOnSelectNow(at, tracked, start, end, priority, now) ==
  LET priorityLevel == normalizePriority(priority) IN
  IF priorityLevel > 0
  THEN [p \in DOMAIN tracked |->
          IF p >= start /\ p <= end /\ (tracked[p] = 0 \/ priorityLevel >= tracked[p])
          THEN now ELSE at[p]]
  ELSE at

\* selectedAt of the entries after extendedSelect ran at time now: a new entry gets now,
\* an overwritten entry keeps its selectedAt (existing?.selectedAt || now)
selectedAtOnSelect(at, tracked, start, end, priority, now) ==
  LET priorityLevel == normalizePriority(priority) IN
  IF priorityLevel > 0
  THEN [p \in DOMAIN tracked |->
          IF p >= start /\ p <= end /\ (tracked[p] = 0 \/ priorityLevel >= tracked[p])
          THEN (IF tracked[p] # 0 THEN at[p] ELSE now)
          ELSE at[p]]
  ELSE at

\* selectedAt of the entries after extendedDeselect: deleted entries have none
selectedAtOnDeselect(at, tracked, start, end, priority) ==
  LET priorityLevel == normalizePriority(priority) IN
  [p \in DOMAIN tracked |->
     IF p >= start /\ p <= end /\ tracked[p] # 0 /\ tracked[p] = priorityLevel
     THEN 0 ELSE at[p]]

\* the tracked prioritized set: getPrioritizedPieceIndices
getPrioritizedPieceIndices(tracked) == {p \in DOMAIN tracked : tracked[p] # 0}

\* PieceRangeCalculator.byteRangeToPieceRange
byteRangeToPieceRange(start, end, pieceLength) ==
  [startPiece |-> start \div pieceLength, endPiece |-> end \div pieceLength]

\* a buffer that is not kept inside the file
addBufferUnclamped(pieceRange, bufferSize, fileSize, pieceLength) ==
  LET byteEnd == (pieceRange.endPiece + 1) * pieceLength - 1
  IN [startPiece |-> pieceRange.startPiece,
      endPiece |-> (byteEnd + bufferSize) \div pieceLength]

\* a buffer that reaches back before the range as well as ahead of it
addBufferBothEnds(pieceRange, bufferSize, fileSize, pieceLength) ==
  LET byteEnd == (pieceRange.endPiece + 1) * pieceLength - 1
      byteStart == pieceRange.startPiece * pieceLength
      bufferedByteEnd == IF byteEnd + bufferSize < fileSize - 1
                         THEN byteEnd + bufferSize ELSE fileSize - 1
      bufferedByteStart == IF byteStart - bufferSize > 0 THEN byteStart - bufferSize ELSE 0
  IN [startPiece |-> bufferedByteStart \div pieceLength,
      endPiece |-> bufferedByteEnd \div pieceLength]

\* PieceRangeCalculator.addBuffer
addBuffer(pieceRange, bufferSize, fileSize, pieceLength) ==
  LET byteEnd == (pieceRange.endPiece + 1) * pieceLength - 1
      bufferedByteEnd == IF byteEnd + bufferSize < fileSize - 1
                         THEN byteEnd + bufferSize ELSE fileSize - 1
  IN [startPiece |-> pieceRange.startPiece, endPiece |-> bufferedByteEnd \div pieceLength]

\* WebTorrentPieceManager.clearAllPriorities
clearAllPriorities(tracked) ==
  LET totalPieces == NumPieces IN
  IF totalPieces > 0
  THEN extendedDeselect(tracked, 0, totalPieces - 1, Num(PIECE_PRIORITY_HIGH))
  ELSE tracked

\* WebTorrentPieceManager.prioritizeRange
prioritizeRange(tracked, start, end, bufferSize, fileSize) ==
  LET pieceRange == byteRangeToPieceRange(start, end, PieceLength)
      bufferedRange == addBuffer(pieceRange, bufferSize, fileSize, PieceLength)
  IN extendedSelect(tracked, bufferedRange.startPiece, bufferedRange.endPiece,
                    Num(PIECE_PRIORITY_HIGH))

\* the byte ranges a request is scheduled for: normalized and within the chunk limit
ByteRanges ==
  {r \in (0..(FileSize - 1)) \X (0..(FileSize - 1)) :
     r[1] <= r[2] /\ r[2] - r[1] + 1 <= ChunkSize}

\* what a select did to the entries of its range: "created" an entry, "raised" one of
\* lower priority, wrote the "same" priority again, "kept" one of higher priority, or
\* was "ignored" because its priority is none
SelectEffects(tracked, start, end, priority) ==
  LET priorityLevel == normalizePriority(priority) IN
  {IF priorityLevel = 0 THEN "ignored"
   ELSE IF tracked[p] = 0 THEN "created"
   ELSE IF priorityLevel > tracked[p] THEN "raised"
   ELSE IF priorityLevel = tracked[p] THEN "same"
   ELSE "kept" : p \in {q \in DOMAIN tracked : q >= start /\ q <= end}}

\* what a deselect did to the entries of its range: "removed" an entry, "spared" an
\* entry of lower or of higher priority, or found "none"
DeselectEffects(tracked, start, end, priority) ==
  LET priorityLevel == normalizePriority(priority) IN
  {IF tracked[p] = 0 THEN "none"
   ELSE IF tracked[p] = priorityLevel THEN "removed"
   ELSE IF tracked[p] > priorityLevel THEN "sparedHigher"
   ELSE "sparedLower" : p \in {q \in DOMAIN tracked : q >= start /\ q <= end}}

TorrentInit ==
  /\ metaReady = FALSE
  /\ pieces = [p \in PieceIds |-> "null"]
  /\ prioritized = [p \in PieceIds |-> 0]
  /\ selectedAt = [p \in PieceIds |-> 0]
  /\ clock = 1
  /\ lastSched = [applied |-> FALSE, startPiece |-> 0, endPiece |-> 0]

\* the torrent's metadata arrives: pieceLength and pieces are set
MetadataReady ==
  /\ ~metaReady
  /\ metaReady' = TRUE
  /\ lastSched' = [lastSched EXCEPT !.applied = FALSE]
  /\ UNCHANGED <<pieces, prioritized, selectedAt, clock, storeVars, checkVars, requestVars>>

\* torrent.select called by any user of the torrent (the patched method)
Select(start, end, priority) ==
  /\ metaReady
  /\ prioritized' = extendedSelect(prioritized, start, end, priority)
  /\ selectedAt' = selectedAtOnSelect(selectedAt, prioritized, start, end, priority, clock)
  /\ lastSched' = [lastSched EXCEPT !.applied = FALSE]
  /\ UNCHANGED <<metaReady, pieces, clock, storeVars, checkVars, requestVars>>

\* torrent.deselect called by any user of the torrent (the patched method)
Deselect(start, end, priority) ==
  /\ metaReady
  /\ prioritized' = extendedDeselect(prioritized, start, end, priority)
  /\ selectedAt' = selectedAtOnDeselect(selectedAt, prioritized, start, end, priority)
  /\ lastSched' = [lastSched EXCEPT !.applied = FALSE]
  /\ UNCHANGED <<metaReady, pieces, clock, storeVars, checkVars, requestVars>>

\* WebTorrentStreamService._applyWebTorrentInstructions
\* a scheduling step that selects without clearing first
applyWithoutClear(start, end) ==
  /\ IF ~metaReady
     THEN /\ UNCHANGED <<prioritized, selectedAt>>
          /\ lastSched' = [lastSched EXCEPT !.applied = FALSE]
     ELSE LET bufferedRange ==
                addBuffer(byteRangeToPieceRange(start, end, PieceLength),
                          BufferSize, FileSize, PieceLength)
          IN /\ prioritized' = prioritizeRange(prioritized, start, end, BufferSize, FileSize)
             /\ selectedAt' =
                  selectedAtOnSelect(selectedAt, prioritized, bufferedRange.startPiece,
                                     bufferedRange.endPiece, Num(PIECE_PRIORITY_HIGH), clock)
             /\ lastSched' = [applied |-> TRUE, startPiece |-> bufferedRange.startPiece,
                              endPiece |-> bufferedRange.endPiece]
  /\ UNCHANGED <<metaReady, pieces, clock>>

applyWebTorrentInstructions(start, end) ==
  /\ IF ~metaReady
     THEN /\ UNCHANGED <<prioritized, selectedAt>>
          /\ lastSched' = [lastSched EXCEPT !.applied = FALSE]
     ELSE LET bufferedRange ==
                addBuffer(byteRangeToPieceRange(start, end, PieceLength),
                          BufferSize, FileSize, PieceLength)
              cleared == clearAllPriorities(prioritized)
              clearedAt == selectedAtOnDeselect(selectedAt, prioritized, 0, NumPieces - 1,
                                                Num(PIECE_PRIORITY_HIGH))
          IN /\ prioritized' = prioritizeRange(cleared, start, end, BufferSize, FileSize)
             /\ selectedAt' =
                  selectedAtOnSelect(clearedAt, cleared, bufferedRange.startPiece,
                                     bufferedRange.endPiece, Num(PIECE_PRIORITY_HIGH), clock)
             /\ lastSched' = [applied |-> TRUE, startPiece |-> bufferedRange.startPiece,
                              endPiece |-> bufferedRange.endPiece]
  /\ UNCHANGED <<metaReady, pieces, clock>>

\* a request is scheduled
ApplyWebTorrentInstructions(start, end) ==
  /\ applyWebTorrentInstructions(start, end)
  /\ UNCHANGED <<storeVars, checkVars, requestVars>>

\* time passes
Tick ==
  /\ clock < MaxClock
  /\ clock' = clock + 1
  /\ lastSched' = [lastSched EXCEPT !.applied = FALSE]
  /\ UNCHANGED <<metaReady, pieces, prioritized, selectedAt, storeVars, checkVars, requestVars>>

NextSched ==
  \/ MetadataReady
  \/ Tick
  \/ \E a \in PieceIds, b \in PieceIds, pr \in PriorityArgs : a <= b /\ Select(a, b, pr)
  \/ \E a \in PieceIds, b \in PieceIds, pr \in PriorityArgs : a <= b /\ Deselect(a, b, pr)
  \/ \E r \in ByteRanges : ApplyWebTorrentInstructions(r[1], r[2])

\* --------------------------------------------------------------- requests
\* the events cleanup listens to
ReqClose   == "reqClose"
ReqAborted == "reqAborted"
ResClose   == "resClose"
ResFinish  == "resFinish"

\* the events a client disconnect makes req and res emit
DisconnectEvents == {ReqClose, ReqAborted, ResClose}

Min(a, b) == IF a < b THEN a ELSE b

\* torrent.pieces: an array of pieces, index -> "null" | "partial" | "done", or no array
Array(items) == [isArray |-> TRUE, items |-> items]
NotAnArray == [isArray |-> FALSE, items |-> [i \in {} |-> "null"]]
Length(items) == Cardinality(DOMAIN items)

\* a check that never finds the pieces downloaded
arePiecesDownloadedNever(pcs, requiredPieces) == FALSE

\* a check that counts every piece object as downloaded, partial ones included
arePiecesDownloadedNotNull(pcs, requiredPieces) ==
  IF ~pcs.isArray THEN FALSE
  ELSE \A pieceIndex \in requiredPieces :
         /\ pieceIndex >= 0 /\ pieceIndex < Length(pcs.items)
         /\ pcs.items[pieceIndex] # "null"

\* WebTorrentStreamService._arePiecesDownloaded
arePiecesDownloaded(pcs, requiredPieces) ==
  IF ~pcs.isArray THEN FALSE
  ELSE \A pieceIndex \in requiredPieces :
         /\ pieceIndex >= 0 /\ pieceIndex < Length(pcs.items)
         /\ pcs.items[pieceIndex] # "null"
         /\ pcs.items[pieceIndex] # "partial"

\* requiredPieces of _waitForPieces, from the stored <<startPiece, endPiece>>
RequiredPieces(r) == reqPieces[r][1]..reqPieces[r][2]

\* the Content-Range header of a response: none written, "bytes start-end/L", "bytes */L"
NoContentRange == [kind |-> "none", start |-> 0, end |-> 0]
BytesRange(start, end) == [kind |-> "range", start |-> start, end |-> end]
BytesUnsatisfied == [kind |-> "unsatisfied", start |-> 0, end |-> 0]

RequestInit ==
  /\ pc = [r \in Requests |-> "idle"]
  /\ reqPieces = [r \in Requests |-> <<0, 0>>]
  /\ reqRange = [r \in Requests |-> <<0, 0>>]
  /\ status = [r \in Requests |-> 0]
  /\ contentRange = [r \in Requests |-> NoContentRange]
  /\ subscribed = [r \in Requests |-> FALSE]
  /\ timerArmed = [r \in Requests |-> FALSE]
  /\ isResolved = [r \in Requests |-> FALSE]
  /\ resolveCount = [r \in Requests |-> 0]
  /\ resolvedBy = [r \in Requests |-> "none"]
  /\ reader = [r \in Requests |-> "none"]
  /\ readerDestroyed = [r \in Requests |-> FALSE]
  /\ handlers = [r \in Requests |-> FALSE]
  /\ isCleanedUp = [r \in Requests |-> FALSE]
  /\ destroyCalls = [r \in Requests |-> 0]
  /\ triggers = [r \in Requests |-> 0]
  /\ fired = [r \in Requests |-> {}]
  /\ resEnded = [r \in Requests |-> FALSE]

\* a caller that answers 500 when the wait reports that the pieces were not ready
RespondFailsOnTimeout(done, throws, how) ==
  LET bad == IF how = "timeout" THEN done ELSE {} IN
  /\ pc' = [r \in Requests |->
              IF r \in done
              THEN (IF r \in throws \cup bad THEN "failed" ELSE "streaming") ELSE pc[r]]
  /\ status' = [r \in Requests |->
                  IF r \in bad THEN 500 ELSE IF r \in done THEN 206 ELSE status[r]]
  /\ contentRange' = [r \in Requests |->
                        IF r \in done \ bad THEN BytesRange(reqRange'[r][1], reqRange'[r][2])
                        ELSE contentRange[r]]
  /\ reader' = [r \in Requests |->
                  IF r \in done \ (throws \cup bad) THEN "open" ELSE reader[r]]
  /\ handlers' = [r \in Requests |->
                    IF r \in done \ (throws \cup bad) THEN TRUE ELSE handlers[r]]
  /\ resolveCount' = [r \in Requests |->
                        IF r \in done THEN resolveCount[r] + 1 ELSE resolveCount[r]]
  /\ resolvedBy' = [r \in Requests |-> IF r \in done THEN how ELSE resolvedBy[r]]

\* a caller that answers 500 when there is no torrent or no piece length to wait with
RespondFailsWithoutTorrent(done, throws, how) ==
  LET bad == IF how = "noTorrent" THEN done ELSE {} IN
  /\ pc' = [r \in Requests |->
              IF r \in done
              THEN (IF r \in throws \cup bad THEN "failed" ELSE "streaming") ELSE pc[r]]
  /\ status' = [r \in Requests |->
                  IF r \in bad THEN 500 ELSE IF r \in done THEN 206 ELSE status[r]]
  /\ contentRange' = [r \in Requests |->
                        IF r \in done \ bad THEN BytesRange(reqRange'[r][1], reqRange'[r][2])
                        ELSE contentRange[r]]
  /\ reader' = [r \in Requests |->
                  IF r \in done \ (throws \cup bad) THEN "open" ELSE reader[r]]
  /\ handlers' = [r \in Requests |->
                    IF r \in done \ (throws \cup bad) THEN TRUE ELSE handlers[r]]
  /\ resolveCount' = [r \in Requests |->
                        IF r \in done THEN resolveCount[r] + 1 ELSE resolveCount[r]]
  /\ resolvedBy' = [r \in Requests |-> IF r \in done THEN how ELSE resolvedBy[r]]

\* The rest of _handleRangeRequest once the wait has resolved, for every request of
\* `done` (it runs as the promise's continuation, before any other event):
\* writeHead(206), createReadStream, _setupStreamHandlers, pipe. For the requests of
\* `throws` createReadStream throws: the headers are sent already, nothing is written.
Respond(done, throws, how) ==
  /\ pc' = [r \in Requests |->
              IF r \in done THEN (IF r \in throws THEN "failed" ELSE "streaming") ELSE pc[r]]
  /\ status' = [r \in Requests |-> IF r \in done THEN 206 ELSE status[r]]
  /\ contentRange' = [r \in Requests |->
                        IF r \in done THEN BytesRange(reqRange'[r][1], reqRange'[r][2])
                        ELSE contentRange[r]]
  /\ reader' = [r \in Requests |-> IF r \in done \ throws THEN "open" ELSE reader[r]]
  /\ handlers' = [r \in Requests |-> IF r \in done \ throws THEN TRUE ELSE handlers[r]]
  /\ resolveCount' = [r \in Requests |->
                        IF r \in done THEN resolveCount[r] + 1 ELSE resolveCount[r]]
  /\ resolvedBy' = [r \in Requests |-> IF r \in done THEN how ELSE resolvedBy[r]]

\* streamVideo with a Range header "bytes=start-requestedEnd" (or "bytes=start-" when
\* open): _handleRangeRequest up to the point where it waits or responds
StartRequest(r, start, requestedEnd, throws) ==
  /\ pc[r] = "idle"
  /\ LET maxAllowedEnd == Min(start + ChunkSize - 1, FileSize - 1)
         end == Min(requestedEnd, maxAllowedEnd)
         startPiece == start \div PieceLength
         endPiece == end \div PieceLength
         limitedEndPiece == Min(endPiece, startPiece + MaxPrioritizedPieces - 1)
     IN IF start >= FileSize
        THEN \* 416
             /\ ~throws
             /\ pc' = [pc EXCEPT ![r] = "rejected"]
             /\ status' = [status EXCEPT ![r] = 416]
             /\ contentRange' = [contentRange EXCEPT ![r] = BytesUnsatisfied]
             /\ resEnded' = [resEnded EXCEPT ![r] = TRUE]
             /\ UNCHANGED <<reqPieces, reqRange, subscribed, timerArmed, isResolved, resolveCount,
                            resolvedBy, reader, handlers, prioritized, selectedAt,
                            lastSched>>
        ELSE \* _prioritizePieces, then _waitForPieces
             /\ prioritized' = IF metaReady
                               THEN extendedSelect(prioritized, startPiece, limitedEndPiece, Num(1))
                               ELSE prioritized
             /\ selectedAt' = IF metaReady
                              THEN selectedAtOnSelect(selectedAt, prioritized, startPiece,
                                                      limitedEndPiece, Num(1), clock)
                              ELSE selectedAt
             /\ lastSched' = [lastSched EXCEPT !.applied = FALSE]
             /\ reqPieces' = [reqPieces EXCEPT ![r] = <<startPiece, endPiece>>]
             /\ reqRange' = [reqRange EXCEPT ![r] = <<start, end>>]
             /\ UNCHANGED resEnded
             /\ IF ~metaReady
                THEN /\ Respond({r}, IF throws THEN {r} ELSE {}, "noTorrent")
                     /\ UNCHANGED <<subscribed, timerArmed, isResolved>>
                ELSE IF arePiecesDownloaded(Array(pieces), startPiece..endPiece)
                THEN /\ Respond({r}, IF throws THEN {r} ELSE {}, "already")
                     /\ UNCHANGED <<subscribed, timerArmed, isResolved>>
                ELSE /\ ~throws
                     /\ pc' = [pc EXCEPT ![r] = "waiting"]
                     /\ subscribed' = [subscribed EXCEPT ![r] = TRUE]
                     /\ timerArmed' = [timerArmed EXCEPT ![r] = TRUE]
                     /\ UNCHANGED <<isResolved, status, contentRange, reader, handlers, resolveCount,
                                    resolvedBy>>
  /\ UNCHANGED <<readerDestroyed, isCleanedUp, destroyCalls, triggers, fired>>
  /\ UNCHANGED <<metaReady, pieces, clock, storeVars, checkVars>>

\* streamVideo without a Range header: _sendInitialChunk answers at once, without
\* scheduling or waiting: writeHead(206), createReadStream, _setupStreamHandlers, pipe
SendInitialChunk(r, throws) ==
  /\ pc[r] = "idle"
  /\ pc' = [pc EXCEPT ![r] = IF throws THEN "failed" ELSE "streaming"]
  /\ status' = [status EXCEPT ![r] = 206]
  /\ LET initialChunkSize == Min(InitialChunkSize, FileSize)
         end == initialChunkSize - 1
     IN /\ reqRange' = [reqRange EXCEPT ![r] = <<0, end>>]
        /\ contentRange' = [contentRange EXCEPT ![r] = BytesRange(0, end)]
  /\ reader' = [reader EXCEPT ![r] = IF throws THEN @ ELSE "open"]
  /\ handlers' = [handlers EXCEPT ![r] = ~throws]
  /\ UNCHANGED <<reqPieces, subscribed, timerArmed, isResolved, resolveCount, resolvedBy,
                 readerDestroyed, isCleanedUp, destroyCalls, triggers, fired, resEnded>>
  /\ UNCHANGED <<torrentVars, storeVars, checkVars>>

\* the piece engine receives data of piece p
PieceProgress(p) ==
  /\ metaReady
  /\ pieces[p] # "done"
  /\ pieces' = [pieces EXCEPT ![p] = IF @ = "null" THEN "partial" ELSE "done"]
  /\ UNCHANGED <<metaReady, prioritized, selectedAt, clock, lastSched, storeVars, checkVars,
                 requestVars>>

\* the requests whose checkPieces, run now, finds its pieces downloaded
ReadyWaits == {r \in Requests : subscribed[r] /\ ~isResolved[r]
                                 /\ arePiecesDownloaded(Array(pieces), RequiredPieces(r))}

\* a checkPieces whose cleanup leaves the timer running
TorrentNotifiesKeepsTimer(throws) ==
  /\ metaReady
  /\ reqRange' = reqRange
  /\ throws \subseteq ReadyWaits
  /\ LET done == ReadyWaits IN
     /\ isResolved' = [r \in Requests |-> isResolved[r] \/ r \in done]
     /\ timerArmed' = timerArmed
     /\ subscribed' = [r \in Requests |-> subscribed[r] /\ r \notin done]
     /\ Respond(done, throws, "download")
  /\ UNCHANGED <<reqPieces, reqRange, readerDestroyed, isCleanedUp, destroyCalls, triggers, fired,
                 resEnded>>
  /\ UNCHANGED <<torrentVars, storeVars, checkVars>>

\* the torrent emits download or done: checkPieces of every subscribed wait runs
TorrentNotifies(throws) ==
  /\ metaReady
  /\ reqRange' = reqRange
  /\ throws \subseteq ReadyWaits
  /\ LET done == ReadyWaits IN
     /\ isResolved' = [r \in Requests |-> isResolved[r] \/ r \in done]
     /\ timerArmed' = [r \in Requests |-> timerArmed[r] /\ r \notin done]
     /\ subscribed' = [r \in Requests |-> subscribed[r] /\ r \notin done]
     /\ Respond(done, throws, "download")
  /\ UNCHANGED <<reqPieces, reqRange, readerDestroyed, isCleanedUp, destroyCalls, triggers, fired,
                 resEnded>>
  /\ UNCHANGED <<torrentVars, storeVars, checkVars>>

\* a timeout callback that only drops the listeners and never resolves
TimeoutOnlyUnsubscribes(r, throws) ==
  /\ timerArmed[r]
  /\ ~throws
  /\ timerArmed' = [timerArmed EXCEPT ![r] = FALSE]
  /\ subscribed' = [subscribed EXCEPT ![r] = FALSE]
  /\ UNCHANGED <<pc, reqPieces, reqRange, status, contentRange, isResolved, resolveCount, resolvedBy, reader,
                 readerDestroyed, handlers, isCleanedUp, destroyCalls, triggers, fired,
                 resEnded>>
  /\ UNCHANGED <<torrentVars, storeVars, checkVars>>

\* the setTimeout callback of _waitForPieces fires after PIECE_WAIT_TIMEOUT
Timeout(r, throws) ==
  /\ timerArmed[r]
  /\ reqRange' = reqRange
  /\ timerArmed' = [timerArmed EXCEPT ![r] = FALSE]
  /\ IF ~isResolved[r]
     THEN /\ isResolved' = [isResolved EXCEPT ![r] = TRUE]
          /\ subscribed' = [subscribed EXCEPT ![r] = FALSE]
          /\ Respond({r}, IF throws THEN {r} ELSE {}, "timeout")
     ELSE /\ ~throws
          /\ UNCHANGED <<isResolved, subscribed, pc, status, contentRange, reader, handlers, resolveCount,
                         resolvedBy>>
  /\ UNCHANGED <<reqPieces, reqRange, readerDestroyed, isCleanedUp, destroyCalls, triggers, fired,
                 resEnded>>
  /\ UNCHANGED <<torrentVars, storeVars, checkVars>>

\* a cleanup without its guards: destroys on every trigger
CleanupUnguarded(r) ==
  /\ triggers' = [triggers EXCEPT ![r] = @ + 1]
  /\ isCleanedUp' = [isCleanedUp EXCEPT ![r] = TRUE]
  /\ readerDestroyed' = [readerDestroyed EXCEPT ![r] = TRUE]
  /\ destroyCalls' = [destroyCalls EXCEPT ![r] = @ + 1]

\* cleanup of _setupStreamHandlers
Cleanup(r) ==
  /\ triggers' = [triggers EXCEPT ![r] = @ + 1]
  /\ IF isCleanedUp[r]
     THEN UNCHANGED <<isCleanedUp, readerDestroyed, destroyCalls>>
     ELSE /\ isCleanedUp' = [isCleanedUp EXCEPT ![r] = TRUE]
          /\ IF ~readerDestroyed[r]
             THEN /\ readerDestroyed' = [readerDestroyed EXCEPT ![r] = TRUE]
                  /\ destroyCalls' = [destroyCalls EXCEPT ![r] = @ + 1]
             ELSE UNCHANGED <<readerDestroyed, destroyCalls>>

\* req or res emits one of the events cleanup listens to; each is emitted at most
\* once, finish only after res.end() on a response that is not closed
Emit(r, ev) ==
  /\ pc[r] # "idle"
  /\ ev \notin fired[r]
  /\ ev = ResFinish => resEnded[r] /\ ResClose \notin fired[r]
  /\ fired' = [fired EXCEPT ![r] = @ \cup {ev}]
  /\ IF handlers[r]
     THEN Cleanup(r)
     ELSE UNCHANGED <<triggers, isCleanedUp, readerDestroyed, destroyCalls>>
  /\ UNCHANGED <<pc, reqPieces, reqRange, status, contentRange, subscribed, timerArmed, isResolved, resolveCount,
                 resolvedBy, reader, handlers, resEnded>>
  /\ UNCHANGED <<torrentVars, storeVars, checkVars>>

\* the read stream ends: pipe ends the response; autoDestroy: the stream destroys itself
ReaderEnds(r, autoDestroy) ==
  /\ reader[r] = "open" /\ ~readerDestroyed[r]
  /\ reader' = [reader EXCEPT ![r] = "ended"]
  /\ readerDestroyed' = [readerDestroyed EXCEPT ![r] = autoDestroy]
  /\ resEnded' = [resEnded EXCEPT ![r] = TRUE]
  /\ UNCHANGED <<pc, reqPieces, reqRange, status, contentRange, subscribed, timerArmed, isResolved, resolveCount,
                 resolvedBy, handlers, isCleanedUp, destroyCalls, triggers, fired>>
  /\ UNCHANGED <<torrentVars, storeVars, checkVars>>

\* the read stream fails: its error handler finds the headers sent and only logs
ReaderFails(r) ==
  /\ reader[r] = "open" /\ ~readerDestroyed[r]
  /\ reader' = [reader EXCEPT ![r] = "errored"]
  /\ readerDestroyed' = [readerDestroyed EXCEPT ![r] = TRUE]
  /\ UNCHANGED <<pc, reqPieces, reqRange, status, contentRange, subscribed, timerArmed, isResolved, resolveCount,
                 resolvedBy, handlers, isCleanedUp, destroyCalls, triggers, fired, resEnded>>
  /\ UNCHANGED <<torrentVars, storeVars, checkVars>>

\* the Range headers of the model: "bytes=start-end" with start <= end, and "bytes=start-"
RangeHeaders ==
  {h \in (0..FileSize) \X (0..(FileSize - 1)) : h[1] <= h[2] \/ h[2] = FileSize - 1}

NextStream ==
  \/ MetadataReady
  \/ \E r \in Requests, h \in RangeHeaders, t \in BOOLEAN : StartRequest(r, h[1], h[2], t)
  \/ \E r \in Requests, t \in BOOLEAN : SendInitialChunk(r, t)
  \/ \E p \in PieceIds : PieceProgress(p)
  \/ \E t \in SUBSET Requests : TorrentNotifies(t)
  \/ \E r \in Requests, t \in BOOLEAN : Timeout(r, t)
  \/ \E r \in Requests, ev \in {ReqClose, ReqAborted, ResClose, ResFinish} : Emit(r, ev)
  \/ \E r \in Requests, a \in BOOLEAN : ReaderEnds(r, a)
  \/ \E r \in Requests : ReaderFails(r)

\* ------------------------------------------------- single function calls
\* no call is being looked at
ChkIdle == [fn |-> "none"]

CheckInit == chk = ChkIdle

\* the values torrent.pieces may have when _arePiecesDownloaded reads it: no array, or
\* an array of any length up to the torrent's number of pieces
PieceStates == {"null", "partial", "done"}
PieceArrays ==
  {NotAnArray} \cup
  {Array(a) : a \in UNION {[0..(n - 1) -> PieceStates] : n \in 0..NumPieces}}

\* _waitForPieces is about to check the pieces of the byte range start..end
ReadyInit ==
  chk \in {[fn |-> "arePiecesDownloaded", pieces |-> a, start |-> s, end |-> e,
            result |-> "pending"] :
             a \in PieceArrays, s \in 0..(FileSize - 1), e \in 0..(FileSize - 1)}
  /\ chk.start <= chk.end

\* _waitForPieces builds requiredPieces from start and end and calls _arePiecesDownloaded
CheckPieces ==
  /\ chk.fn = "arePiecesDownloaded" /\ chk.result = "pending"
  /\ LET startPiece == chk.start \div PieceLength
         endPiece == chk.end \div PieceLength
         requiredPieces == startPiece..endPiece
     IN chk' = [chk EXCEPT !.result =
                  IF arePiecesDownloaded(chk.pieces, requiredPieces) THEN "true" ELSE "false"]
  /\ UNCHANGED <<storeVars, torrentVars, requestVars>>

NextReady == CheckPieces

\* the contents prioritizedPiecesMap may have at time now: any priority per piece, each
\* entry with a selectedAt that is not in the future
TrackedAt(now) ==
  {t \in [PieceIds -> [priority : NONE..CRITICAL, selectedAt : 0..now]] :
     \A p \in PieceIds : (t[p].priority = NONE) <=> (t[p].selectedAt = 0)}

PrioritiesOf(t) == [p \in DOMAIN t |-> t[p].priority]
SelectedAtOf(t) == [p \in DOMAIN t |-> t[p].selectedAt]

\* torrent.select or torrent.deselect is about to be called on some contents of the map
SelectInit ==
  \E now \in 1..MaxClock : \E t \in TrackedAt(now) : \E f \in {"select", "deselect"} :
    \E a \in PieceIds, b \in PieceIds, pr \in PriorityArgs :
      /\ a <= b
      /\ chk = [fn |-> f, tracked |-> PrioritiesOf(t), at |-> SelectedAtOf(t),
                start |-> a, end |-> b, priority |-> pr, now |-> now, calls |-> 0,
                after |-> PrioritiesOf(t), afterAt |-> SelectedAtOf(t),
                again |-> PrioritiesOf(t), againAt |-> SelectedAtOf(t)]

\* torrent.select(start, end, priority): the first call at chk.now, the second call,
\* with the same arguments, at that time or later
CallSelect(now) ==
  /\ chk.fn = "select"
  /\ \/ /\ chk.calls = 0 /\ now = chk.now
        /\ chk' = [chk EXCEPT
               !.calls = 1,
               !.after = extendedSelect(chk.tracked, chk.start, chk.end, chk.priority),
               !.afterAt = selectedAtOnSelect(chk.at, chk.tracked, chk.start, chk.end,
                                              chk.priority, now)]
     \/ /\ chk.calls = 1 /\ now >= chk.now
        /\ chk' = [chk EXCEPT
               !.calls = 2,
               !.now = now,
               !.again = extendedSelect(chk.after, chk.start, chk.end, chk.priority),
               !.againAt = selectedAtOnSelect(chk.afterAt, chk.after, chk.start, chk.end,
                                              chk.priority, now)]
  /\ UNCHANGED <<storeVars, torrentVars, requestVars>>

\* torrent.deselect(start, end, priority)
CallDeselect ==
  /\ chk.fn = "deselect" /\ chk.calls = 0
  /\ chk' = [chk EXCEPT
         !.calls = 1,
         !.after = extendedDeselect(chk.tracked, chk.start, chk.end, chk.priority),
         !.afterAt = selectedAtOnDeselect(chk.at, chk.tracked, chk.start, chk.end,
                                          chk.priority)]
  /\ UNCHANGED <<storeVars, torrentVars, requestVars>>

NextSelect ==
  \/ \E now \in 1..MaxClock : CallSelect(now)
  \/ CallDeselect

\* the values of a pieces array: numbers and booleans
Bool(b) == [kind |-> "boolean", val |-> IF b THEN 1 ELSE 0]
Numbers(arr) == [i \in DOMAIN arr |-> Num(arr[i])]

\* value === 1 || (typeof value === 'boolean' && value === true)
isPresent(value) ==
  (value.kind = "number" /\ value.val = 1) \/ (value.kind = "boolean" /\ value.val = 1)

\* pieceRanges.getRanges: the runs of consecutive present values of an array, as [start, end]
\* pairs; rangeStart = -1 stands for null
RECURSIVE getRangesFrom(_, _, _)
getRangesFrom(arr, i, rangeStart) ==
  IF i = Length(arr)
    THEN IF rangeStart # -1 THEN <<<<rangeStart, Length(arr) - 1>>>> ELSE <<>>
    ELSE IF isPresent(arr[i])
           THEN getRangesFrom(arr, i + 1, IF rangeStart = -1 THEN i ELSE rangeStart)
           ELSE (IF rangeStart # -1 THEN <<<<rangeStart, i - 1>>>> ELSE <<>>)
                \o getRangesFrom(arr, i + 1, -1)

\* ranges without the last one
getRangesWithoutLast(pcs) ==
  LET all == getRangesFrom(pcs.items, 0, -1) IN
  IF Len(all) > 1 THEN SubSeq(all, 1, Len(all) - 1) ELSE all

getRanges(pcs) ==
  IF ~pcs.isArray \/ Length(pcs.items) = 0 THEN <<>> ELSE getRangesFrom(pcs.items, 0, -1)

\* pieceRanges.countPieces
countPieces(pcs) ==
  IF ~pcs.isArray \/ Length(pcs.items) = 0 THEN 0
  ELSE Cardinality({i \in DOMAIN pcs.items : isPresent(pcs.items[i])})

\* TorrentExtension.getPrioritizedPiecesArray
getPrioritizedPiecesArray(tracked, totalPieces) ==
  [i \in 0..(totalPieces - 1) |-> IF i \in DOMAIN tracked /\ tracked[i] # 0 THEN 1 ELSE 0]

\* WebTorrentRepository.getDebugInfo for the one active torrent: torrent.pieces is empty
\* until the metadata is there
GetDebugInfo ==
  LET totalPieces == IF metaReady THEN NumPieces ELSE 0
      piecesStatus == [i \in 0..(totalPieces - 1) |-> IF pieces[i] = "done" THEN 1 ELSE 0]
      prioritizedPieces == getPrioritizedPiecesArray(prioritized, totalPieces)
  IN /\ chk' = [fn |-> "getDebugInfo", totalPieces |-> totalPieces,
                piecesStatus |-> piecesStatus,
                downloadedRanges |-> getRanges(Array(Numbers(piecesStatus))),
                prioritizedRanges |-> getRanges(Array(Numbers(prioritizedPieces)))]
     /\ UNCHANGED <<storeVars, torrentVars, requestVars>>

NextDebug ==
  \/ MetadataReady
  \/ \E a \in PieceIds, b \in PieceIds, pr \in PriorityArgs : a <= b /\ Select(a, b, pr)
  \/ \E p \in PieceIds : PieceProgress(p)
  \/ GetDebugInfo

\* ---------------------------------------------------------------------------------
\* The range pipeline of the stream responder: RangeParser, RangeNormalizer, ByteRange,
\* RangeResponseBuilder. A Range header is the optional prefix "bytes=" and a string of
\* characters.

Digits == {"0", "2", "7"}
Chars == Digits \cup {"-", ",", " ", "x"}

DigitValue(c) == IF c = "0" THEN 0 ELSE IF c = "2" THEN 2 ELSE 7

HeaderValues == UNION {[1..n -> Chars] : n \in 0..MaxHeaderLen}

\* req.headers.range: absent, or a string
NoHeader == [present |-> FALSE, prefix |-> FALSE, value |-> <<>>]
Headers ==
  {NoHeader} \cup {[present |-> TRUE, prefix |-> b, value |-> v] :
                     b \in BOOLEAN, v \in HeaderValues}

\* String.prototype.trim
RECURSIVE trimStart(_)
trimStart(str) == IF str # <<>> /\ Head(str) = " " THEN trimStart(Tail(str)) ELSE str

RECURSIVE trimEnd(_)
trimEnd(str) ==
  IF str # <<>> /\ str[Len(str)] = " " THEN trimEnd(SubSeq(str, 1, Len(str) - 1)) ELSE str

trim(str) == trimEnd(trimStart(str))

\* parseInt(str, 10): leading white space is skipped, the longest prefix of digits is
\* read, and the result is NaN when there is none
RECURSIVE digitsValue(_, _)
digitsValue(str, acc) ==
  IF str # <<>> /\ Head(str) \in Digits
  THEN digitsValue(Tail(str), 10 * acc + DigitValue(Head(str)))
  ELSE acc

NaN == [isNaN |-> TRUE, value |-> 0]

parseInt(str) ==
  LET t == trimStart(str) IN
  IF t # <<>> /\ Head(t) \in Digits THEN [isNaN |-> FALSE, value |-> digitsValue(t, 0)]
  ELSE NaN

\* String.prototype.split('-'): the positions of the separator
Separators(str) == {i \in 1..Len(str) : str[i] = "-"}

ParseFailure == [success |-> FALSE, type |-> "none", start |-> 0, end |-> 0, suffix |-> 0]
ParsedSuffix(suffix) ==
  [success |-> TRUE, type |-> "suffix", start |-> 0, end |-> 0, suffix |-> suffix]
ParsedStartOnly(start) ==
  [success |-> TRUE, type |-> "start-only", start |-> start, end |-> 0, suffix |-> 0]
ParsedStartEnd(start, end) ==
  [success |-> TRUE, type |-> "start-end", start |-> start, end |-> end, suffix |-> 0]

\* RangeParser.parse of a header; the header without the prefix "bytes=" is left as it
\* is by the replace
parse(header) ==
  LET rangeValue == header.value IN
  IF rangeValue = <<>> THEN ParseFailure
  ELSE IF \E i \in 1..Len(rangeValue) : rangeValue[i] = "," THEN ParseFailure
  ELSE IF Cardinality(Separators(rangeValue)) + 1 # 2 THEN ParseFailure
  ELSE LET at == CHOOSE i \in Separators(rangeValue) : TRUE
           startStr == trim(SubSeq(rangeValue, 1, at - 1))
           endStr == trim(SubSeq(rangeValue, at + 1, Len(rangeValue)))
       IN IF startStr = <<>> /\ endStr # <<>>
            THEN LET suffix == parseInt(endStr) IN
                 IF suffix.isNaN THEN ParseFailure
                 ELSE IF suffix.value < 0 THEN ParseFailure
                 ELSE ParsedSuffix(suffix.value)
          ELSE IF startStr # <<>> /\ endStr = <<>>
            THEN LET start == parseInt(startStr) IN
                 IF start.isNaN THEN ParseFailure ELSE ParsedStartOnly(start.value)
          ELSE IF startStr # <<>> /\ endStr # <<>>
            THEN LET start == parseInt(startStr)
                     end == parseInt(endStr)
                 IN IF start.isNaN \/ end.isNaN THEN ParseFailure
                    ELSE ParsedStartEnd(start.value, end.value)
          ELSE ParseFailure

Max(a, b) == IF a > b THEN a ELSE b

\* the outcomes of building a ByteRange: the range, null, or the constructor's Error
Null == [kind |-> "null", start |-> 0, end |-> 0]
Throws == [kind |-> "throws", start |-> 0, end |-> 0]

\* new ByteRange(start, end)
ByteRange(start, end) ==
  IF start < 0 \/ end < 0 THEN Throws
  ELSE IF start > end THEN Throws
  ELSE [kind |-> "range", start |-> start, end |-> end]

\* ByteRange.isValid
isValid(range, fileSize) ==
  range.start < fileSize /\ range.end < fileSize /\ range.start <= range.end

\* ByteRange.size
size(range) == range.end - range.start + 1

\* a chunk limit that limits nothing
applyChunkLimitNone(range, chunkSize, fileSize) == range

\* a chunk limit that only keeps the range inside the file
applyChunkLimitFileEnd(range, chunkSize, fileSize) ==
  [kind |-> "range", start |-> range.start, end |-> Min(range.end, fileSize - 1)]

\* ByteRange.applyChunkLimit
applyChunkLimit(range, chunkSize, fileSize) ==
  LET maxEnd == Min(range.start + chunkSize - 1, fileSize - 1)
      finalEnd == Min(range.end, maxEnd)
  IN ByteRange(range.start, finalEnd)

\* a start-only range that runs to the end of the file
fromStartOnlyToEnd(start, chunkSize, fileSize) ==
  [kind |-> "range", start |-> Min(Max(start, 0), fileSize - 1), end |-> fileSize - 1]

\* ByteRange.fromStartOnly
fromStartOnly(start, chunkSize, fileSize) ==
  LET clampedStart == Min(Max(start, 0), fileSize - 1)
      end == Min(clampedStart + chunkSize - 1, fileSize - 1)
  IN ByteRange(clampedStart, end)

\* ByteRange.fromSuffix
fromSuffix(suffix, fileSize) ==
  LET start == Max(fileSize - suffix, 0) IN ByteRange(start, fileSize - 1)

\* the first chunk taken as the whole file
initialChunkWholeFile(chunkSize, fileSize) == ByteRange(0, fileSize - 1)

\* ByteRange.initialChunk
initialChunk(chunkSize, fileSize) ==
  LET start == 0
      end == Min(chunkSize - 1, fileSize - 1)
  IN ByteRange(start, end)

\* a start-end range that puts its ends in order instead of failing
fromStartEndOrdered(start, end, fileSize) ==
  LET clampedStart == Min(Max(start, 0), fileSize - 1)
      clampedEnd == Min(Max(end, 0), fileSize - 1)
  IN [kind |-> "range", start |-> Min(clampedStart, clampedEnd),
      end |-> Max(clampedStart, clampedEnd)]

\* ByteRange.fromStartEnd
fromStartEnd(start, end, fileSize) ==
  LET clampedStart == Min(Max(start, 0), fileSize - 1)
      clampedEnd == Min(Max(end, 0), fileSize - 1)
  IN IF clampedEnd < clampedStart THEN Null ELSE ByteRange(clampedStart, clampedEnd)

\* RangeNormalizer.normalize; an Error thrown by ByteRange leaves it as thrown
normalize(parsed, fileSize, chunkSize) ==
  LET range == IF parsed.type = "suffix" THEN fromSuffix(parsed.suffix, fileSize)
               ELSE IF parsed.type = "start-only"
                 THEN fromStartOnly(parsed.start, chunkSize, fileSize)
               ELSE fromStartEnd(parsed.start, parsed.end, fileSize)
  IN IF range.kind = "throws" THEN Throws
     ELSE IF range.kind = "null" THEN Null
     ELSE IF ~isValid(range, fileSize) THEN Null
     ELSE range

\* the range a Range header comes to: parsed, normalized, limited to the chunk size;
\* "unparsed" when the parser rejects it
FinalRange(header) ==
  LET parseResult == parse(header) IN
  IF ~parseResult.success THEN [kind |-> "unparsed", start |-> 0, end |-> 0]
  ELSE LET normalizedRange == normalize(parseResult, FileSize, ChunkSize) IN
       IF normalizedRange.kind # "range" THEN normalizedRange
       ELSE applyChunkLimit(normalizedRange, ChunkSize, FileSize)

\* a request arrives with any header
RangeInit ==
  \E h \in Headers :
    chk = [fn |-> "streamVideo", header |-> h, phase |-> "received",
           range |-> Null, status |-> 0, contentRange |-> NoContentRange,
           acceptRanges |-> FALSE, ended |-> FALSE, reader |-> FALSE,
           headersSent |-> FALSE, stream |-> "none", bytesSent |-> 0,
           contentLength |-> 0]

\* the response of StreamErrorHandler.handle to a rejected handler: no header was sent
HandleError(c) ==
  [c EXCEPT !.phase = "done", !.status = 500, !.ended = TRUE, !.headersSent = TRUE]

\* RangeResponseBuilder.sendRangeNotSatisfiable
SendRangeNotSatisfiable(c) ==
  [c EXCEPT !.phase = "done", !.status = 416, !.contentRange = BytesUnsatisfied,
            !.ended = TRUE, !.headersSent = TRUE]

\* WebTorrentStreamService.streamVideo up to the await of the scheduling:
\* _sendInitialChunk without Range header (an empty header counts as none),
\* _handleRangeRequest with one
StreamVideo ==
  /\ chk.fn = "streamVideo" /\ chk.phase = "received"
  /\ LET hasRange == chk.header.present /\ (chk.header.prefix \/ chk.header.value # <<>>)
         range == IF hasRange THEN FinalRange(chk.header)
                  ELSE initialChunk(ChunkSize, FileSize)
     IN IF range.kind = "range"
          THEN /\ applyWebTorrentInstructions(range.start, range.end)
               /\ chk' = [chk EXCEPT !.phase = "sending", !.range = range]
          ELSE /\ chk' = IF range.kind = "throws" THEN HandleError(chk)
                         ELSE SendRangeNotSatisfiable(chk)
               /\ UNCHANGED torrentVars
  /\ UNCHANGED <<storeVars, requestVars>>

\* WebTorrentStreamService._sendStreamResponse: nothing when the response is ended or
\* destroyed (gone); else sendPartialContent, then createReadStream, which may throw:
\* the catch finds the headers sent by writeHead and ends the response
SendStreamResponse(gone, throws) ==
  /\ chk.fn = "streamVideo" /\ chk.phase = "sending"
  /\ chk' = IF gone THEN [chk EXCEPT !.phase = "done"]
            ELSE [chk EXCEPT !.phase = "done", !.status = 206,
                             !.contentRange = BytesRange(chk.range.start, chk.range.end),
                             !.acceptRanges = TRUE, !.headersSent = TRUE,
                             !.contentLength = size(chk.range),
                             !.reader = ~throws, !.ended = throws,
                             !.stream = IF throws THEN "throws" ELSE "open"]
  /\ UNCHANGED <<storeVars, torrentVars, requestVars>>

\* the read stream emits data: the data handler of StreamEventHandler counts the bytes,
\* which pipe writes to the response
StreamData(n) ==
  /\ chk.fn = "streamVideo" /\ chk.stream = "open"
  /\ chk.bytesSent + n <= chk.range.end - chk.range.start + 1
  /\ chk' = [chk EXCEPT !.bytesSent = @ + n]
  /\ UNCHANGED <<storeVars, torrentVars, requestVars>>

\* the error handler of StreamEventHandler.setupErrorHandler
setupErrorHandler(c) ==
  IF ~c.headersSent /\ ~c.ended
  THEN [c EXCEPT !.stream = "errored", !.status = 500, !.ended = TRUE, !.headersSent = TRUE]
  ELSE [c EXCEPT !.stream = "errored"]

\* the read stream emits error
StreamError ==
  /\ chk.fn = "streamVideo" /\ chk.stream = "open"
  /\ chk' = setupErrorHandler(chk)
  /\ UNCHANGED <<storeVars, torrentVars, requestVars>>

\* the read stream ends: pipe ends the response
StreamEnd ==
  /\ chk.fn = "streamVideo" /\ chk.stream = "open"
  /\ chk' = [chk EXCEPT !.stream = "ended", !.ended = TRUE]
  /\ UNCHANGED <<storeVars, torrentVars, requestVars>>

NextRange ==
  \/ MetadataReady
  \/ StreamVideo
  \/ \E gone \in BOOLEAN, throws \in BOOLEAN : SendStreamResponse(gone, throws)
  \/ \E n \in 1..ChunkSize : StreamData(n)
  \/ StreamError
  \/ StreamEnd

\* the parsed ranges handed to RangeNormalizer.normalize
ParsedRanges ==
  {ParsedSuffix(n) : n \in 0..MaxNumber}
    \cup {ParsedStartOnly(n) : n \in -1..MaxNumber}
    \cup {ParsedStartEnd(n, m) : n \in -1..MaxNumber, m \in -1..MaxNumber}

\* a parsed range is about to be normalized for a file of some size and some chunk size
NormalizeInit ==
  \E parsed \in ParsedRanges, fileSize \in 1..FileSize, chunkSize \in 1..(FileSize + 1) :
    chk = [fn |-> "normalize", parsed |-> parsed, fileSize |-> fileSize,
           chunkSize |-> chunkSize, calls |-> 0, normalized |-> Null, final |-> Null]

\* _handleRangeRequest: RangeNormalizer.normalize, then applyChunkLimit on its range
NormalizeRange ==
  /\ chk.fn = "normalize" /\ chk.calls = 0
  /\ LET normalizedRange == normalize(chk.parsed, chk.fileSize, chk.chunkSize) IN
     chk' = [chk EXCEPT
              !.calls = 1,
              !.normalized = normalizedRange,
              !.final = IF normalizedRange.kind = "range"
                        THEN applyChunkLimit(normalizedRange, chk.chunkSize, chk.fileSize)
                        ELSE normalizedRange]
  /\ UNCHANGED <<storeVars, torrentVars, requestVars>>

NextNormalize == NormalizeRange

\* a Range header is about to be parsed
ParseInit ==
  \E h \in Headers \ {NoHeader} :
    chk = [fn |-> "parse", header |-> h, calls |-> 0, result |-> ParseFailure]

\* RangeParser.parse(rangeHeader)
ParseHeader ==
  /\ chk.fn = "parse" /\ chk.calls = 0
  /\ chk' = [chk EXCEPT !.calls = 1, !.result = parse(chk.header)]
  /\ UNCHANGED <<storeVars, torrentVars, requestVars>>

NextParse == ParseHeader

\* a valid byte range of a file is about to be turned into pieces
PieceRangeInit ==
  \E fileSize \in 1..FileSize, pieceLength \in 1..(PieceLength + 1),
     bufferSize \in 0..(BufferSize + 2) :
    \E start \in 0..(fileSize - 1), end \in 0..(fileSize - 1) :
      /\ start <= end
      /\ chk = [fn |-> "pieceRange", start |-> start, end |-> end, fileSize |-> fileSize,
                pieceLength |-> pieceLength, bufferSize |-> bufferSize, calls |-> 0,
                pieceRange |-> [startPiece |-> 0, endPiece |-> 0],
                bufferedRange |-> [startPiece |-> 0, endPiece |-> 0]]

\* WebTorrentPieceManager.prioritizeRange: byteRangeToPieceRange, then addBuffer
CalculatePieceRange ==
  /\ chk.fn = "pieceRange" /\ chk.calls = 0
  /\ LET pieceRange == byteRangeToPieceRange(chk.start, chk.end, chk.pieceLength) IN
     chk' = [chk EXCEPT
              !.calls = 1,
              !.pieceRange = pieceRange,
              !.bufferedRange = addBuffer(pieceRange, chk.bufferSize, chk.fileSize,
                                          chk.pieceLength)]
  /\ UNCHANGED <<storeVars, torrentVars, requestVars>>

NextPieceRange == CalculatePieceRange

\* the arrays handed to getRanges and countPieces: null, or numbers and booleans
RangeValues == {Num(0), Num(1), Num(2), Bool(TRUE), Bool(FALSE)}

GetRangesInit ==
  \/ chk = [fn |-> "getRanges", pieces |-> NotAnArray, calls |-> 0, ranges |-> <<>>,
            count |-> 0]
  \/ \E n \in 0..MaxArrayLen : \E a \in [0..(n - 1) -> RangeValues] :
       chk = [fn |-> "getRanges", pieces |-> Array(a), calls |-> 0, ranges |-> <<>>,
              count |-> 0]

\* getRanges(pieces) and countPieces(pieces) of the same array
CallGetRanges ==
  /\ chk.fn = "getRanges" /\ chk.calls = 0
  /\ chk' = [chk EXCEPT !.calls = 1, !.ranges = getRanges(chk.pieces),
                        !.count = countPieces(chk.pieces)]
  /\ UNCHANGED <<storeVars, torrentVars, requestVars>>

NextGetRanges == CallGetRanges

\* the calls the engine receives from one scheduling call, the request-th of the
\* transfer, for the bytes start..end: originalDeselect from clearAllPriorities, then
\* originalSelect from prioritizeRange; none while the torrent has no pieceLength
EngineCalls(request, start, end) ==
  LET bufferedRange == addBuffer(byteRangeToPieceRange(start, end, PieceLength),
                                 BufferSize, FileSize, PieceLength)
  IN IF ~metaReady THEN <<>>
     ELSE <<[op |-> "deselect", request |-> request, startPiece |-> 0,
             endPiece |-> NumPieces - 1],
            [op |-> "select", request |-> request, startPiece |-> bufferedRange.startPiece,
             endPiece |-> bufferedRange.endPiece]>>

\* a transfer on which no request was scheduled yet
OrderInit == chk = [fn |-> "schedule", requests |-> <<>>, log |-> <<>>]

\* a request for the bytes start..end reaches _applyWebTorrentInstructions: the method
\* has no await, so clearAllPriorities and prioritizeRange run before any other
\* request's handler
ScheduleRequest(start, end) ==
  /\ chk.fn = "schedule" /\ Len(chk.requests) < MaxCalls
  /\ applyWebTorrentInstructions(start, end)
  /\ chk' = [chk EXCEPT
              !.requests = Append(@, [start |-> start, end |-> end, applied |-> metaReady]),
              !.log = @ \o EngineCalls(Len(chk.requests) + 1, start, end)]
  /\ UNCHANGED <<storeVars, requestVars>>

NextOrder ==
  \/ MetadataReady
  \/ \E r \in ByteRanges : ScheduleRequest(r[1], r[2])

\* ------------------------------------------------ put, statement by statement
\* MemoryLimitedStore.put cut at its calls into the tracker, to see what can run
\* between them. chk holds the tracker, the evictedChunks of every store, the error
\* callbacks of the underlying store still to run, and the call of put on the stack.

NoFrame == [pc |-> "none", self |-> "none", index |-> 0, size |-> 0, currentMemory |-> 0,
            seen |-> [chunks |-> [s \in Stores |-> <<>>], keys |-> {}, total |-> 0,
                      counter |-> 0, log |-> <<>>]]

\* put, get and close are synchronous functions on one thread: from the first
\* statement of put to its call of this.store.put there is no await and no callback,
\* so a call starts only when no call of put is on the stack
CallStackEmptyAlways == TRUE

CallStackEmpty == chk.frame.pc = "none"

PutStepsInit ==
  chk = [fn |-> "put",
         tracker |-> [chunks |-> [s \in Stores |-> <<>>], keys |-> {}, total |-> 0,
                      counter |-> 0, log |-> <<>>],
         evicted |-> [s \in Stores |-> {}],
         pending |-> {},
         frame |-> NoFrame]

\* put, lines 152-156: size, currentMemory = tracker.getTotalMemory() and the test
PutCheck(self, index, bufLength) ==
  /\ chk.fn = "put" /\ CallStackEmpty
  /\ chk.tracker.counter < MaxAccess
  /\ chk' = [chk EXCEPT
              !.tracker.log = <<>>,
              !.frame = [pc |-> "checked", self |-> self, index |-> index,
                         size |-> bufLength,
                         currentMemory |-> chk.tracker.total,
                         seen |-> [chk.tracker EXCEPT !.log = <<>>]]]
  /\ UNCHANGED <<storeVars, torrentVars, requestVars>>

\* put, lines 156-159: this.evictChunks(size) when the test was true
PutEvict ==
  /\ chk.fn = "put" /\ chk.frame.pc = "checked"
  /\ LET f == chk.frame
         T1 == IF f.currentMemory + f.size > MaxMemory
               THEN EvictChunks(chk.tracker, f.self, f.size) ELSE chk.tracker
     IN chk' = [chk EXCEPT
                 !.tracker = T1,
                 !.evicted[f.self] = @ \cup MarkedEvicted(T1.log, f.self),
                 !.frame.pc = "evicted",
                 !.frame.seen = T1]
  /\ UNCHANGED <<storeVars, torrentVars, requestVars>>

\* put, lines 162-176: tracker.addChunk, evictedChunks.delete, this.store.put
PutRegister(err) ==
  /\ chk.fn = "put" /\ chk.frame.pc = "evicted"
  /\ LET f == chk.frame
         T2 == AddChunk(chk.tracker, f.self, f.index, f.size)
     IN chk' = [chk EXCEPT
                 !.tracker = T2,
                 !.evicted[f.self] = @ \ {f.index},
                 !.pending = IF err THEN @ \cup {<<f.self, f.index>>} ELSE @,
                 !.frame = NoFrame]
  /\ UNCHANGED <<storeVars, torrentVars, requestVars>>

\* the callback of this.store.put with an error: tracker.removeChunk
PutCallback(self, index) ==
  /\ chk.fn = "put" /\ CallStackEmpty
  /\ <<self, index>> \in chk.pending
  /\ chk' = [chk EXCEPT !.tracker = RemoveChunk(@, self, index),
                        !.pending = @ \ {<<self, index>>}]
  /\ UNCHANGED <<storeVars, torrentVars, requestVars>>

\* MemoryLimitedStore.get, as far as the tracker goes
GetCall(self, index) ==
  /\ chk.fn = "put" /\ CallStackEmpty
  /\ index \notin chk.evicted[self]
  /\ LET T1 == AccessChunk(chk.tracker, self, index)
     IN /\ T1.counter <= MaxAccess
        /\ T1 # chk.tracker
        /\ chk' = [chk EXCEPT !.tracker = T1]
  /\ UNCHANGED <<storeVars, torrentVars, requestVars>>

\* MemoryLimitedStore.close, as far as the tracker goes
CloseCall(self) ==
  /\ chk.fn = "put" /\ CallStackEmpty
  /\ self \in chk.tracker.keys
  /\ chk' = [chk EXCEPT !.tracker = RemoveStore(@, self)]
  /\ UNCHANGED <<storeVars, torrentVars, requestVars>>

NextPutSteps ==
  \/ \E s \in Stores, i \in Indices, z \in Sizes : PutCheck(s, i, z)
  \/ PutEvict
  \/ \E e \in BOOLEAN : PutRegister(e)
  \/ \E s \in Stores, i \in Indices : PutCallback(s, i)
  \/ \E s \in Stores, i \in Indices : GetCall(s, i)
  \/ \E s \in Stores : CloseCall(s)

\* ---------------------------------------------- recency of a chunk that was read
\* The stores and their tracker, with one get singled out: chk.read is the chunk that
\* get read, chk.idle the chunks that were registered at that moment and have not been
\* put or read since.

NoRead == <<"none", 0>>

\* the registered chunks of the tracker, as <<storeId, index>>
Registered(T) ==
  UNION { { <<s, T.chunks[s][k].index>> : k \in DOMAIN T.chunks[s] } : s \in T.keys }

\* lastUsed of a registered chunk
LastUsedOf(T, c) == T.chunks[c[1]][FindIndex(T.chunks[c[1]], c[2])].lastUsed

RecencyInit ==
  chk = [fn |-> "get",
         tracker |-> [chunks |-> [s \in Stores |-> <<>>], keys |-> {}, total |-> 0,
                      counter |-> 0, log |-> <<>>],
         evicted |-> [s \in Stores |-> {}],
         pending |-> {},
         read |-> NoRead,
         idle |-> {}]

\* MemoryLimitedStore.get; single: this is the get that is singled out
ReadChunk(self, index, single) ==
  /\ chk.fn = "get"
  /\ single => <<self, index>> \in Registered(chk.tracker)
  /\ IF index \in chk.evicted[self]
     THEN /\ ~single
          /\ chk' = chk
     ELSE LET T1 == AccessChunk(chk.tracker, self, index) IN
          /\ T1.counter <= MaxUses
          /\ chk' = [chk EXCEPT
                      !.tracker = T1,
                      !.read = IF single THEN <<self, index>> ELSE @,
                      !.idle = IF single THEN Registered(chk.tracker) \ {<<self, index>>}
                               ELSE @ \ {<<self, index>>}]
  /\ UNCHANGED <<storeVars, torrentVars, requestVars>>

\* MemoryLimitedStore.put; err: the underlying store rejects the buffer
WriteChunk(self, index, bufLength, err) ==
  /\ chk.fn = "get"
  /\ chk.tracker.counter < MaxUses
  /\ LET T0 == [chk.tracker EXCEPT !.log = <<>>]
         T1 == IF T0.total + bufLength > MaxMemory
               THEN EvictChunks(T0, self, bufLength) ELSE T0
         T2 == AddChunk(T1, self, index, bufLength)
     IN chk' = [chk EXCEPT
                 !.tracker = T2,
                 !.evicted[self] = (@ \cup MarkedEvicted(T2.log, self)) \ {index},
                 !.pending = IF err THEN @ \cup {<<self, index>>} ELSE @,
                 !.idle = @ \ {<<self, index>>}]
  /\ UNCHANGED <<storeVars, torrentVars, requestVars>>

\* the error callback of the underlying store's put: tracker.removeChunk
WriteFailed(self, index) ==
  /\ chk.fn = "get"
  /\ <<self, index>> \in chk.pending
  /\ chk' = [chk EXCEPT
              !.tracker = RemoveChunk(@, self, index),
              !.pending = @ \ {<<self, index>>},
              !.read = IF @ = <<self, index>> THEN NoRead ELSE @,
              !.idle = IF chk.read = <<self, index>> THEN {} ELSE @ \ {<<self, index>>}]
  /\ UNCHANGED <<storeVars, torrentVars, requestVars>>

\* MemoryLimitedStore.close
CloseStore(self) ==
  /\ chk.fn = "get"
  /\ self \in chk.tracker.keys
  /\ chk' = [chk EXCEPT
              !.tracker = RemoveStore(@, self),
              !.read = IF @[1] = self THEN NoRead ELSE @,
              !.idle = IF chk.read[1] = self THEN {} ELSE {d \in @ : d[1] # self}]
  /\ UNCHANGED <<storeVars, torrentVars, requestVars>>

NextRecency ==
  \/ \E s \in Stores, i \in Indices, g \in BOOLEAN : ReadChunk(s, i, g)
  \/ \E s \in Stores, i \in Indices, z \in Sizes, e \in BOOLEAN : WriteChunk(s, i, z, e)
  \/ \E s \in Stores, i \in Indices : WriteFailed(s, i)
  \/ \E s \in Stores : CloseStore(s)

\* ------------------------------------------------------ WebTorrentRepository.add
\* chk holds the repository's activeTorrents (its keys), the torrents the client was
\* asked to create per magnet, whether the torrent of a magnet has its metadata, and
\* the calls of add: [state, magnet, created, joined, hadMetadata, error].

Magnets == {"m1", "m2"}

AddCalls == 1..MaxAdds

NoCall == [state |-> "none", magnet |-> "none", created |-> FALSE, joined |-> FALSE,
           hadMetadata |-> FALSE, error |-> "none"]

\* the calls of add that wait for the metadata of magnet m: their onMetadata and
\* onError are listeners of the torrent and their timer is pending
WaitingFor(m) == {c \in AddCalls : chk.calls[c].state = "waiting" /\ chk.calls[c].magnet = m}

AddInit ==
  chk = [fn |-> "add",
         activeTorrents |-> {},
         clientTorrents |-> [m \in Magnets |-> 0],
         metadata |-> [m \in Magnets |-> FALSE],
         calls |-> [c \in AddCalls |-> NoCall]]

\* add(magnet) up to its await: a magnet found in activeTorrents skips the whole block
\* and returns the entity at once; otherwise client.add, extendTorrent,
\* activeTorrents.set, and the promise with its listeners and its timer
Add(c, magnet) ==
  /\ chk.fn = "add"
  /\ chk.calls[c].state = "none"
  /\ \A b \in AddCalls : b < c => chk.calls[b].state # "none"
  /\ IF magnet \in chk.activeTorrents
     THEN chk' = [chk EXCEPT
                   !.calls[c] = [state |-> "resolved", magnet |-> magnet,
                                 created |-> FALSE,
                                 joined |-> WaitingFor(magnet) # {},
                                 hadMetadata |-> chk.metadata[magnet],
                                 error |-> "none"]]
     ELSE chk' = [chk EXCEPT
                   !.activeTorrents = @ \cup {magnet},
                   !.clientTorrents[magnet] = @ + 1,
                   !.metadata[magnet] = FALSE,
                   !.calls[c] = [state |-> "waiting", magnet |-> magnet,
                                 created |-> TRUE,
                                 joined |-> WaitingFor(magnet) # {},
                                 hadMetadata |-> FALSE, error |-> "none"]]
  /\ UNCHANGED <<storeVars, torrentVars, requestVars>>

\* the torrent of a magnet emits metadata: onMetadata resolves
OnMetadata(magnet) ==
  /\ chk.fn = "add"
  /\ magnet \in chk.activeTorrents /\ ~chk.metadata[magnet]
  /\ chk' = [chk EXCEPT
              !.metadata[magnet] = TRUE,
              !.calls = [c \in AddCalls |->
                           IF c \in WaitingFor(magnet)
                           THEN [@[c] EXCEPT !.state = "resolved", !.hadMetadata = TRUE]
                           ELSE @[c]]]
  /\ UNCHANGED <<storeVars, torrentVars, requestVars>>

\* the torrent of a magnet emits error before its metadata: onError rejects and
\* deletes the magnet from activeTorrents
OnError(magnet) ==
  /\ chk.fn = "add"
  /\ WaitingFor(magnet) # {}
  /\ chk' = [chk EXCEPT
              !.activeTorrents = @ \ {magnet},
              !.calls = [c \in AddCalls |->
                           IF c \in WaitingFor(magnet)
                           THEN [@[c] EXCEPT !.state = "rejected", !.error = "raw"]
                           ELSE @[c]]]
  /\ UNCHANGED <<storeVars, torrentVars, requestVars>>

\* the setTimeout callback of a waiting call fires after METADATA_TIMEOUT
MetadataTimeout(c) ==
  /\ chk.fn = "add"
  /\ chk.calls[c].state = "waiting"
  /\ LET magnet == chk.calls[c].magnet IN
     IF ~chk.metadata[magnet]
     THEN chk' = [chk EXCEPT !.activeTorrents = @ \ {magnet},
                             !.calls[c].state = "rejected",
                             !.calls[c].error = "Metadata reception timeout"]
     ELSE chk' = chk
  /\ UNCHANGED <<storeVars, torrentVars, requestVars>>

NextAdd ==
  \/ \E c \in AddCalls, m \in Magnets : Add(c, m)
  \/ \E m \in Magnets : OnMetadata(m)
  \/ \E m \in Magnets : OnError(m)
  \/ \E c \in AddCalls : MetadataTimeout(c)

Init == StoreInit /\ TorrentInit /\ RequestInit /\ CheckInit

InitOrder == StoreInit /\ TorrentInit /\ RequestInit /\ OrderInit

SpecOrder == InitOrder /\ [][NextOrder]_vars

InitGetRanges == StoreInit /\ TorrentInit /\ RequestInit /\ GetRangesInit

SpecGetRanges == InitGetRanges /\ [][NextGetRanges]_vars

InitPieceRange == StoreInit /\ TorrentInit /\ RequestInit /\ PieceRangeInit

SpecPieceRange == InitPieceRange /\ [][NextPieceRange]_vars

InitParse == StoreInit /\ TorrentInit /\ RequestInit /\ ParseInit

SpecParse == InitParse /\ [][NextParse]_vars

InitNormalize == StoreInit /\ TorrentInit /\ RequestInit /\ NormalizeInit

SpecNormalize == InitNormalize /\ [][NextNormalize]_vars

InitRange == StoreInit /\ TorrentInit /\ RequestInit /\ RangeInit

SpecRange == InitRange /\ [][NextRange]_vars

SpecDebug == Init /\ [][NextDebug]_vars

InitSelect == StoreInit /\ TorrentInit /\ RequestInit /\ SelectInit

SpecSelect == InitSelect /\ [][NextSelect]_vars

InitReady == StoreInit /\ TorrentInit /\ RequestInit /\ ReadyInit

SpecReady == InitReady /\ [][NextReady]_vars

InitPutSteps == StoreInit /\ TorrentInit /\ RequestInit /\ PutStepsInit

SpecPutSteps == InitPutSteps /\ [][NextPutSteps]_vars

InitRecency == StoreInit /\ TorrentInit /\ RequestInit /\ RecencyInit

SpecRecency == InitRecency /\ [][NextRecency]_vars

InitAdd == StoreInit /\ TorrentInit /\ RequestInit /\ AddInit

SpecAdd == InitAdd /\ [][NextAdd]_vars

SpecStore == Init /\ [][NextStore]_vars

SpecSched == Init /\ [][NextSched]_vars

SpecStream == Init /\ [][NextStream]_vars

\* a timer that was set fires: Node runs every pending timeout callback
SpecStreamLive == SpecStream /\ \A r \in Requests : WF_vars(\E t \in BOOLEAN : Timeout(r, t))

Next == NextStore \/ NextSched \/ NextStream \/ NextReady \/ NextSelect \/ NextDebug
          \/ NextRange \/ NextNormalize \/ NextParse
          \/ NextPieceRange \/ NextGetRanges \/ NextOrder \/ NextPutSteps \/ NextRecency \/ NextAdd

Spec == Init /\ [][Next]_vars

\* ------------------------------------------------- claims about the store

\* C1: a get for a piece index whose chunk was evicted from the budget (by a put on
\* the same store, by a put on another store, or by the tracker's own eviction) and
\* not put again since reports "not found" and never data.
C1_EvictedGetNotFound ==
  \A s \in Stores : \A i \in wasEvicted[s] : GetResult(s, i) = "notFound"

\* C2: after every operation the sizes of all chunks registered as resident, over
\* all stores, sum to at most the configured maximum.
C2_ResidentWithinBudget == ResidentBytes(chunks) <= MaxMemory

\* a put has just evicted through the tracker (a chunk larger than the maximum, or a
\* re-put that grew a chunk) and another chunk is still resident
C2_Witness ==
  /\ \E k \in DOMAIN evictLog : evictLog[k].phase = "evictIfNeeded"
  /\ \E k \in DOMAIN evictLog : evictLog[k].phase = "evictChunks"
  /\ ResidentBytes(chunks) <= MaxMemory

\* C3: chunks are evicted in increasing lastUsed order over all stores: every chunk
\* evicted had, at its eviction, the smallest lastUsed of all resident chunks.
C3_EvictOldestFirst ==
  \A k \in DOMAIN evictLog : evictLog[k].lastUsed = evictLog[k].oldest

\* one put evicted two chunks of two different stores
C3_Witness ==
  /\ Len(evictLog) >= 2
  /\ evictLog[1].storeId # evictLog[2].storeId
  /\ evictLog[1].lastUsed < evictLog[2].lastUsed

\* C4: a put evicts exactly enough: a chunk is evicted only if, immediately before
\* its eviction, the running total plus the incoming size exceeded the maximum.
\* (In the tracker's own eviction the incoming chunk is already in the total.)
C4_EvictsOnlyWhenNeeded ==
  \A k \in DOMAIN evictLog : evictLog[k].totalBefore + evictLog[k].incoming > MaxMemory

\* C5: close (and destroy) unregisters every chunk of the store and lowers the
\* running total by exactly the sum of their sizes, leaves the chunks of the other
\* stores and the access counter as they were, and on a store that was closed and
\* has nothing registered since it changes neither the registry nor the total.
C5_CloseUnregisters ==
  [][\A s \in Stores :
       (Close(s) \/ Destroy(s)) =>
         /\ chunks'[s] = <<>>
         /\ chunkKeys' = chunkKeys \ {s}
         /\ totalMemory' = totalMemory - SumSizes(chunks[s])
         /\ \A o \in Stores \ {s} : chunks'[o] = chunks[o]
         /\ accessCounter' = accessCounter
         /\ (closed[s] /\ s \notin chunkKeys =>
               chunks' = chunks /\ chunkKeys' = chunkKeys /\ totalMemory' = totalMemory)
    ]_vars

\* a store holding chunks was closed while the other store keeps its own
C5_Witness ==
  \E s \in Stores : \E o \in Stores \ {s} :
    /\ closed[s] /\ s \notin chunkKeys /\ stored[s] = {} /\ evictedChunks[s] # {}
    /\ chunks[o] # <<>> /\ totalMemory = SumSizes(chunks[o])

\* ---------------------------------------------- claims about the requests

\* the client is gone: req and res have emitted every event of a disconnect
ClientGone(r) == DisconnectEvents \subseteq fired[r]

\* C6: every wait for pieces resolves, and resolves once: with true only when all
\* required pieces are fully downloaded, with false when the timeout fires; a pending
\* wait never stays pending, even if no download notification ever arrives.
C6_WaitResolves ==
  \A r \in Requests :
    /\ [](resolveCount[r] <= 1)
    /\ [](resolvedBy[r] \in {"already", "download"} =>
            arePiecesDownloaded(Array(pieces), RequiredPieces(r)))
    /\ (pc[r] = "waiting") ~> (pc[r] # "waiting")

\* a wait was pending and ended by its timeout, while a piece it needs is not there
C6_Witness ==
  \E r \in Requests :
    /\ resolvedBy[r] = "timeout" /\ resolveCount[r] = 1
    /\ ~arePiecesDownloaded(Array(pieces), RequiredPieces(r))

\* C7: once the client of a request has disconnected, its wait is cancelled: the
\* download/done subscription and the timer of the wait are removed.
C7_AbortCancelsWait ==
  \A r \in Requests : ClientGone(r) => ~subscribed[r] /\ ~timerArmed[r]

\* C8: after a client disconnect no reader of the request is left running, also when
\* the disconnect came before the reader existed (during scheduling or waiting).
C8_NoReaderAfterDisconnect ==
  \A r \in Requests : ClientGone(r) => ~(reader[r] = "open" /\ ~readerDestroyed[r])

\* C9: whatever subset of request close, request aborted, response close and response
\* finish fires, in whatever order, cleanup destroys the reader at most once, and
\* after the first trigger the reader is destroyed.
C9_CleanupOnce ==
  \A r \in Requests :
    /\ destroyCalls[r] <= 1
    /\ triggers[r] >= 1 => isCleanedUp[r] /\ readerDestroyed[r]

\* every one of the four events reached cleanup, and destroy ran once
C9_Witness ==
  \E r \in Requests : triggers[r] = 4 /\ destroyCalls[r] = 1

\* C11: a wait that ends by timeout never fails the request: the response is a 206
\* for the same normalized range and the reader is created and piped; no 4xx or 5xx
\* status results (when createReadStream throws, the 206 is already written).
C11_TimeoutStillServes ==
  \A r \in Requests :
    resolvedBy[r] = "timeout" =>
      /\ status[r] = 206
      /\ contentRange[r] = BytesRange(reqRange[r][1], reqRange[r][2])
      /\ pc[r] \in {"streaming", "failed"}
      /\ pc[r] = "streaming" => reader[r] # "none" /\ handlers[r]

\* a request is streaming after its wait timed out with a required piece missing
C11_Witness ==
  \E r \in Requests :
    /\ resolvedBy[r] = "timeout" /\ pc[r] = "streaming" /\ reader[r] = "open"
    /\ status[r] = 206 /\ reqRange[r][1] > 0
    /\ \E p \in RequiredPieces(r) : pieces[p] = "null"

C13_AlreadyDownloadedNoWait ==
  [][\A r \in Requests :
       (/\ pc[r] = "idle"
        /\ pc'[r] = "waiting" \/ resolvedBy'[r] # "none"
        /\ metaReady
        /\ \A p \in (reqRange'[r][1] \div PieceLength)..(reqRange'[r][2] \div PieceLength) :
              pieces[p] = "done")
       => /\ resolvedBy'[r] = "already" /\ resolveCount'[r] = 1
          /\ pc'[r] # "waiting"
          /\ ~subscribed'[r] /\ ~timerArmed'[r]]_vars

\* a request of two pieces, both downloaded, went straight to streaming
C13_Witness ==
  \E r \in Requests :
    /\ resolvedBy[r] = "already" /\ pc[r] = "streaming" /\ status[r] = 206
    /\ reqPieces[r][1] < reqPieces[r][2]
    /\ ~subscribed[r] /\ ~timerArmed[r]

\* ------------------------------------------- claims about the scheduling

\* C10: after a scheduling step the tracked prioritized set of the transfer is exactly
\* the buffered piece range of the new request: nothing prioritized earlier outside
\* that range remains prioritized.
C10_TrackedIsBufferedRange ==
  lastSched.applied =>
    getPrioritizedPieceIndices(prioritized) = lastSched.startPiece..lastSched.endPiece

\* -------------------------------------- claims about select and deselect

\* C14: a select never lowers a tracked priority: an entry of its range is overwritten
\* only when the new priority is higher than or equal to the tracked one, an entry is
\* created where none exists, entries outside the range are untouched, and a select at
\* priority none creates or changes no entry.
C14_SelectNeverLowers ==
  (chk.fn = "select" /\ chk.calls >= 1) =>
    LET level == normalizePriority(chk.priority) IN
    \A p \in PieceIds :
      /\ chk.after[p] >= chk.tracked[p]
      /\ level = NONE => chk.after[p] = chk.tracked[p] /\ chk.afterAt[p] = chk.at[p]
      /\ (p < chk.start \/ p > chk.end)
           => chk.after[p] = chk.tracked[p] /\ chk.afterAt[p] = chk.at[p]
      /\ (p >= chk.start /\ p <= chk.end /\ level > NONE) =>
           /\ chk.tracked[p] = 0 => chk.after[p] = level
           /\ (chk.tracked[p] # 0 /\ level >= chk.tracked[p]) => chk.after[p] = level
           /\ level < chk.tracked[p] => chk.after[p] = chk.tracked[p]

\* one select met an entry of higher priority, which it kept, and a piece without entry
C14_Witness ==
  /\ chk.fn = "select" /\ chk.calls = 1
  /\ {"kept", "created"} \subseteq SelectEffects(chk.tracked, chk.start, chk.end, chk.priority)
  /\ \E p \in PieceIds : chk.after[p] = CRITICAL /\ chk.tracked[p] = CRITICAL

\* C15: deselect(start, end, p) removes a tracked entry of [start, end] only if its
\* priority equals the normalized p exactly; entries of any other priority and entries
\* outside [start, end] stay, so a deselect at a lower priority never removes a
\* higher-priority selection.
C15_DeselectExactMatch ==
  (chk.fn = "deselect" /\ chk.calls = 1) =>
    LET level == normalizePriority(chk.priority) IN
    \A p \in PieceIds :
      /\ (p >= chk.start /\ p <= chk.end /\ chk.tracked[p] # 0 /\ chk.tracked[p] = level)
           => chk.after[p] = 0 /\ chk.afterAt[p] = 0
      /\ (p < chk.start \/ p > chk.end \/ chk.tracked[p] # level)
           => chk.after[p] = chk.tracked[p] /\ chk.afterAt[p] = chk.at[p]
      /\ chk.tracked[p] > level => chk.after[p] = chk.tracked[p]

\* one deselect removed an entry and left one of higher priority in its range
C15_Witness ==
  /\ chk.fn = "deselect" /\ chk.calls = 1
  /\ {"removed", "sparedHigher"} \subseteq
       DeselectEffects(chk.tracked, chk.start, chk.end, chk.priority)
  /\ \E p \in PieceIds : chk.after[p] = HIGH /\ chk.afterAt[p] > 0

\* C16: select is idempotent: the same select called a second time, at the time of the
\* first call or later, leaves the tracked entries as the first call left them: the
\* same indices, the same priorities and the same first-selection timestamps.
C16_SelectIdempotent ==
  (chk.fn = "select" /\ chk.calls = 2) =>
    /\ chk.again = chk.after
    /\ chk.againAt = chk.afterAt
    /\ getPrioritizedPieceIndices(chk.again) = getPrioritizedPieceIndices(chk.after)

\* the second call came later than the first and met the entries the first one created
C16_Witness ==
  /\ chk.fn = "select" /\ chk.calls = 2
  /\ "created" \in SelectEffects(chk.tracked, chk.start, chk.end, chk.priority)
  /\ \E p \in PieceIds : chk.afterAt[p] > 0 /\ chk.afterAt[p] < chk.now /\ chk.tracked[p] = 0

\* -------------------------------------- claims about the debug report

\* C17: the prioritized ranges reported by getDebugInfo contain only prioritized pieces
\* that are not yet downloaded: a prioritized piece that is fully downloaded is not
\* reported.
C17_ReportsOnlyNotDownloaded ==
  chk.fn = "getDebugInfo" =>
    \A k \in 1..Len(chk.prioritizedRanges) :
      \A p \in chk.prioritizedRanges[k][1]..chk.prioritizedRanges[k][2] :
        chk.piecesStatus[p] = 0

\* -------------------------------------- claims about the range pipeline

\* the request has a Range header
HasRange == chk.header.present /\ (chk.header.prefix \/ chk.header.value # <<>>)

C19_InvalidRangeGets416 ==
  (chk.fn = "streamVideo" /\ HasRange /\ FinalRange(chk.header).kind # "range"
     /\ chk.phase # "received") =>
    /\ chk.phase = "done" /\ chk.status = 416 /\ chk.contentRange = BytesUnsatisfied
    /\ chk.ended /\ ~chk.reader /\ ~lastSched.applied

\* C20: a request for bytes=START- or bytes=START-END with START beyond the last byte
\* is answered 416, never 206 for a clamped range.
C20_OutOfBoundsGets416 ==
  (chk.fn = "streamVideo" /\ HasRange /\ parse(chk.header).success
     /\ parse(chk.header).type \in {"start-only", "start-end"}
     /\ parse(chk.header).start >= FileSize /\ chk.status # 0) =>
    chk.status = 416

\* C21: a failure of the byte reader (createReadStream throws, or the stream emits
\* error) before any byte was sent results in a 500 response; a read error after bytes
\* were sent leaves the 206 as it is.
C21_ReaderFailureBeforeBytesIs500 ==
  (chk.fn = "streamVideo" /\ chk.stream \in {"throws", "errored"}) =>
    IF chk.bytesSent = 0 THEN chk.status = 500 ELSE chk.status = 206

\* C22: for every 206 response, Content-Length is end - start + 1 of the range stated
\* in Content-Range, that range satisfies 0 <= start <= end < FileSize, and its size
\* never exceeds ChunkSize, whatever range the client requested.
C22_PartialContentWithinChunk ==
  (chk.fn = "streamVideo" /\ chk.status = 206) =>
    /\ chk.contentRange.kind = "range"
    /\ chk.contentLength = chk.contentRange.end - chk.contentRange.start + 1
    /\ 0 <= chk.contentRange.start /\ chk.contentRange.start <= chk.contentRange.end
    /\ chk.contentRange.end < FileSize
    /\ chk.contentLength <= ChunkSize

\* a suffix longer than the chunk size was asked for and answered with one chunk
C22_Witness ==
  /\ chk.fn = "streamVideo" /\ chk.status = 206
  /\ parse(chk.header).success /\ parse(chk.header).type = "suffix"
  /\ parse(chk.header).suffix > ChunkSize
  /\ chk.contentLength = ChunkSize

\* -------------------------------------- claims about normalization

\* a parsed range of the given type has been normalized
Normalized(type) == chk.fn = "normalize" /\ chk.calls = 1 /\ chk.parsed.type = type

\* C23: for 0 <= start <= end < L, normalizing bytes=start-end and applying the chunk
\* limit yields {start, end} when end - start + 1 <= C and {start, start + C - 1}
\* otherwise.
C23_StartEndWithinChunk ==
  (Normalized("start-end") /\ 0 <= chk.parsed.start /\ chk.parsed.start <= chk.parsed.end
     /\ chk.parsed.end < chk.fileSize) =>
    /\ chk.final.kind = "range"
    /\ chk.final.start = chk.parsed.start
    /\ chk.final.end = IF chk.parsed.end - chk.parsed.start + 1 <= chk.chunkSize
                       THEN chk.parsed.end
                       ELSE chk.parsed.start + chk.chunkSize - 1

\* a range longer than the chunk size was cut to one chunk
C23_Witness ==
  /\ Normalized("start-end") /\ 0 <= chk.parsed.start /\ chk.parsed.end < chk.fileSize
  /\ chk.parsed.end - chk.parsed.start + 1 > chk.chunkSize
  /\ chk.final.kind = "range" /\ chk.final.end < chk.parsed.end

\* C24: for L > 0 and every suffix S >= 0, S = 0 and S > L included, normalizing
\* bytes=-S yields the range {max(L - S, 0), L - 1}.
C24_SuffixRange ==
  Normalized("suffix") =>
    /\ chk.normalized.kind = "range"
    /\ chk.normalized.start = (IF chk.fileSize - chk.parsed.suffix > 0
                                THEN chk.fileSize - chk.parsed.suffix ELSE 0)
    /\ chk.normalized.end = chk.fileSize - 1

\* C25: normalizing bytes=START- yields start = clamp(START, 0, L - 1) and
\* end = min(start + C - 1, L - 1), for every START, C >= 1 and L >= 1.
C25_StartOnlyRange ==
  Normalized("start-only") =>
    LET start == IF chk.parsed.start < 0 THEN 0
                 ELSE IF chk.parsed.start > chk.fileSize - 1 THEN chk.fileSize - 1
                 ELSE chk.parsed.start
    IN /\ chk.normalized.kind = "range"
       /\ chk.normalized.start = start
       /\ chk.normalized.end = (IF start + chk.chunkSize - 1 < chk.fileSize - 1
                                 THEN start + chk.chunkSize - 1 ELSE chk.fileSize - 1)

\* a start-only range whose chunk ends before the end of the file
C25_Witness ==
  /\ Normalized("start-only") /\ chk.parsed.start > 0
  /\ chk.normalized.kind = "range" /\ chk.normalized.start = chk.parsed.start
  /\ chk.normalized.end = chk.normalized.start + chk.chunkSize - 1
  /\ chk.normalized.end < chk.fileSize - 1

\* C26: normalizing bytes=START-END clamps start and end each into [0, L - 1] and
\* fails whenever the clamped end is smaller than the clamped start.
C26_StartEndClampsOrFails ==
  Normalized("start-end") =>
    LET clamp(n) == IF n < 0 THEN 0
                    ELSE IF n > chk.fileSize - 1 THEN chk.fileSize - 1 ELSE n
    IN IF clamp(chk.parsed.end) < clamp(chk.parsed.start)
       THEN chk.normalized.kind = "null" /\ chk.final.kind = "null"
       ELSE /\ chk.normalized.kind = "range"
            /\ chk.normalized.start = clamp(chk.parsed.start)
            /\ chk.normalized.end = clamp(chk.parsed.end)

\* a start beyond the file with an end inside it: the clamped end is below the clamped
\* start and the normalization fails
C26_Witness ==
  /\ Normalized("start-end") /\ chk.parsed.start > chk.fileSize
  /\ chk.parsed.end >= 0 /\ chk.parsed.end < chk.fileSize - 1
  /\ chk.normalized.kind = "null"

\* -------------------------------------- claims about the Range parser

\* C27: the parser rejects every header value that contains a comma and every value in
\* which a start, end or suffix component is not purely numeric: a value that parses
\* has no comma and exactly one "-", and each of its components, white space around it
\* aside, is empty or a string of decimal digits, not both empty.
C27_OnlyNumericFormsParse ==
  (chk.fn = "parse" /\ chk.calls = 1 /\ chk.result.success) =>
    LET v == chk.header.value
        dashes == {i \in 1..Len(v) : v[i] = "-"}
        Numeric(str) == \A i \in 1..Len(str) : str[i] \in Digits
    IN /\ \A i \in 1..Len(v) : v[i] # ","
       /\ Cardinality(dashes) = 1
       /\ \A at \in dashes :
            /\ Numeric(trim(SubSeq(v, 1, at - 1)))
            /\ Numeric(trim(SubSeq(v, at + 1, Len(v))))
            /\ Len(v) > 1

\* -------------------------------------- claims about piece ranges

\* C28: for every valid byte range and piece length > 0, the plain and the buffered
\* piece range both satisfy startPiece <= endPiece with both indices within
\* 0 .. ceil(L / pieceLength) - 1, for every buffer size >= 0.
C28_PieceRangeWithinTorrent ==
  (chk.fn = "pieceRange" /\ chk.calls = 1) =>
    LET lastPiece == (chk.fileSize + chk.pieceLength - 1) \div chk.pieceLength - 1 IN
    \A r \in {chk.pieceRange, chk.bufferedRange} :
      /\ 0 <= r.startPiece /\ r.startPiece <= r.endPiece /\ r.endPiece <= lastPiece

\* a buffer that reaches beyond the end of the file from a range not in the last piece
C28_Witness ==
  /\ chk.fn = "pieceRange" /\ chk.calls = 1
  /\ (chk.pieceRange.endPiece + 1) * chk.pieceLength - 1 + chk.bufferSize > chk.fileSize - 1
  /\ chk.bufferedRange.endPiece > chk.pieceRange.endPiece

\* C29: getRanges returns the increasing list of maximal runs of present pieces as
\* inclusive [start, end] pairs: the ranges are disjoint and not adjacent, cover exactly
\* the indices whose value is 1 or true, and their lengths add up to countPieces of the
\* same array; empty, null and all-zero inputs give the empty list and the count 0.
C29_RangesAreMaximalRuns ==
  (chk.fn = "getRanges" /\ chk.calls = 1) =>
    LET items == chk.pieces.items
        present == {i \in DOMAIN items :
                      items[i] \in {Num(1), Bool(TRUE)}}
        ranges == chk.ranges
        RECURSIVE Lengths(_)
        Lengths(k) == IF k = 0 THEN 0
                      ELSE Lengths(k - 1) + (ranges[k][2] - ranges[k][1] + 1)
    IN /\ \A k \in 1..Len(ranges) : ranges[k][1] <= ranges[k][2]
       /\ \A k \in 1..(Len(ranges) - 1) : ranges[k][2] + 1 < ranges[k + 1][1]
       /\ UNION {ranges[k][1]..ranges[k][2] : k \in 1..Len(ranges)} = present
       /\ Lengths(Len(ranges)) = chk.count
       /\ chk.count = Cardinality(present)
       /\ present = {} => ranges = <<>> /\ chk.count = 0

\* an array with two runs, one of them of two pieces, one of them marked by a boolean
C29_Witness ==
  /\ chk.fn = "getRanges" /\ chk.calls = 1
  /\ Len(chk.ranges) = 2 /\ chk.count = 3
  /\ \E i \in DOMAIN chk.pieces.items : chk.pieces.items[i] = Bool(TRUE)

\* -------------------------------------- claims about the order of scheduling

C31_PutIsAtomic ==
  (chk.fn = "put" /\ chk.frame.pc # "none") =>
     /\ chk.tracker = chk.frame.seen
     /\ chk.frame.pc = "checked" => chk.tracker.total = chk.frame.currentMemory

\* a put that found the budget exceeded has evicted a chunk of another store and is
\* about to register its own
C31_Witness ==
  /\ chk.fn = "put" /\ chk.frame.pc = "evicted"
  /\ chk.frame.currentMemory + chk.frame.size > MaxMemory
  /\ \E k \in DOMAIN chk.tracker.log : chk.tracker.log[k].storeId # chk.frame.self

\* the prioritization instruction for the byte range of request r has been issued: every
\* piece of the range has an entry in the tracked priorities (after the step)
C32_Prioritized(r) ==
  \A p \in (reqRange'[r][1] \div PieceLength)..(reqRange'[r][2] \div PieceLength) :
     prioritized'[p] # 0

\* C32: each request passes through its phases in order, without a Range header as
\* well as with one: when its wait begins the pieces of its range are prioritized;
\* when its 206 headers are written its range has been prioritized (the torrent being
\* known) and no wait of it is pending; its reader is created only on a response whose
\* 206 headers are written.
C32_PhasesInOrder ==
  [][\A r \in Requests :
       /\ (~subscribed[r] /\ subscribed'[r]) => C32_Prioritized(r)
       /\ (status[r] # 206 /\ status'[r] = 206) =>
            /\ ~subscribed'[r] /\ ~timerArmed'[r]
            /\ metaReady => C32_Prioritized(r)
       /\ (reader[r] = "none" /\ reader'[r] # "none") => status'[r] = 206]_vars

\* C33: when the torrent is not available or its piece length is 0, scheduling and
\* waiting are no-ops: the step in which the request finds this out issues no select
\* or deselect (the tracked priorities stay as they were), creates no subscription and
\* no timer, raises no error, writes the 206 headers and goes on to create the reader
\* (which is open unless createReadStream itself throws).
C33_NoTorrentIsNoOp ==
  [][\A r \in Requests :
       (resolvedBy[r] = "none" /\ resolvedBy'[r] = "noTorrent") =>
          /\ prioritized' = prioritized /\ selectedAt' = selectedAt
          /\ ~subscribed'[r] /\ ~timerArmed'[r]
          /\ status'[r] = 206
          /\ contentRange'[r] = BytesRange(reqRange'[r][1], reqRange'[r][2])
          /\ pc'[r] \in {"streaming", "failed"}
          /\ pc'[r] = "streaming" => reader'[r] = "open"]_vars

\* a ranged request made before the metadata is known is being streamed
C33_Witness ==
  \E r \in Requests :
     /\ resolvedBy[r] = "noTorrent" /\ ~metaReady
     /\ status[r] = 206 /\ reader[r] = "open"
     /\ \A p \in PieceIds : prioritized[p] = 0

\* C34: the read-ahead buffer only extends the end of the piece range: the buffered
\* startPiece is the un-buffered startPiece, the buffered endPiece is at least the
\* un-buffered endPiece and equals
\* floor(min((endPiece + 1) * pieceLength - 1 + bufferSize, L - 1) / pieceLength),
\* so it never passes the last piece of the content.
C34_BufferExtendsEndOnly ==
  (chk.fn = "pieceRange" /\ chk.calls = 1) =>
    LET p == chk.pieceRange
        b == chk.bufferedRange
        byteEnd == (p.endPiece + 1) * chk.pieceLength - 1
    IN /\ b.startPiece = p.startPiece
       /\ b.endPiece >= p.endPiece
       /\ b.endPiece = Min(byteEnd + chk.bufferSize, chk.fileSize - 1) \div chk.pieceLength
       /\ b.endPiece <= (chk.fileSize - 1) \div chk.pieceLength

\* a range that starts after piece 0 and whose read-ahead, staying inside the content,
\* adds a piece
C34_Witness ==
  /\ chk.fn = "pieceRange" /\ chk.calls = 1
  /\ chk.pieceRange.startPiece > 0
  /\ (chk.pieceRange.endPiece + 1) * chk.pieceLength - 1 + chk.bufferSize < chk.fileSize - 1
  /\ chk.bufferedRange.endPiece > chk.pieceRange.endPiece

\* the positions of the registry: <<storeId, k>> for the k-th chunk of a store
C35_Slots(ch) == UNION { { <<s, k>> : k \in DOMAIN ch[s] } : s \in Stores }

\* C35: every put, and every get that finds its chunk registered, gives the chunk a
\* counter value greater than every value given before; so at all times the resident
\* chunks of all stores have pairwise distinct lastUsed values.
C35_FreshCounter ==
  [][/\ accessCounter' >= accessCounter
     /\ \A x \in C35_Slots(chunks') :
          LET c == chunks'[x[1]][x[2]] IN
          /\ c.lastUsed \in 1..accessCounter'
          /\ \A y \in C35_Slots(chunks') :
               x # y => c.lastUsed # chunks'[y[1]][y[2]].lastUsed
          /\ (\A y \in C35_Slots(chunks) :
                chunks[y[1]][y[2]].index # c.index \/ y[1] # x[1]
                  \/ chunks[y[1]][y[2]].lastUsed # c.lastUsed)
               => /\ c.lastUsed = accessCounter'
                  /\ accessCounter' > accessCounter]_vars

\* a store whose first registered chunk was used again after its second was registered
C35_Witness ==
  \E s \in Stores :
     /\ Len(chunks[s]) >= 2
     /\ chunks[s][1].lastUsed > chunks[s][2].lastUsed
     /\ chunks[s][1].lastUsed = accessCounter

\* C36: a get on a resident chunk refreshes its recency: afterwards the chunk is not
\* evicted before any other resident chunk, of whichever store, that has not been put
\* or read since. While it is registered its lastUsed is above that of every such
\* chunk; once it is evicted every such chunk is evicted too, and earlier in the same
\* eviction run.
C36_GetRefreshesRecency ==
  (chk.fn = "get" /\ chk.read # NoRead) =>
     LET T == chk.tracker
         position(c) == { k \in DOMAIN T.log :
                            T.log[k].storeId = c[1] /\ T.log[k].index = c[2] }
     IN IF chk.read \in Registered(T)
        THEN \A d \in chk.idle \cap Registered(T) :
               LastUsedOf(T, d) < LastUsedOf(T, chk.read)
        ELSE /\ chk.idle \cap Registered(T) = {}
             /\ \A d \in chk.idle : \A k \in position(chk.read), j \in position(d) : j < k

\* the chunk that was read is still registered after a put that evicted a chunk of the
\* other store that was idle since the get
C36_Witness ==
  /\ chk.fn = "get" /\ chk.read # NoRead
  /\ chk.read \in Registered(chk.tracker)
  /\ \E d \in chk.idle :
       /\ d \notin Registered(chk.tracker)
       /\ d[1] # chk.read[1]
       /\ \E k \in DOMAIN chk.tracker.log :
            chk.tracker.log[k].storeId = d[1] /\ chk.tracker.log[k].index = d[2]

\* C37: the tracker's running total always equals the sum of the sizes of the chunks
\* in its registry and is never negative, after any sequence of put (of a new index or
\* again with another size), get, rollback of a failed underlying put, eviction and
\* close over the stores.
C37_TotalIsSumOfRegistry ==
  /\ totalMemory = ResidentBytes(chunks)
  /\ totalMemory >= 0
  /\ \A s \in Stores \ chunkKeys : chunks[s] = <<>>

\* a chunk put again with another size is registered, after an eviction, while another
\* store has been closed
C37_Witness ==
  /\ totalMemory > 0
  /\ evictLog # <<>>
  /\ \E s \in Stores : closed[s]
  /\ \E s \in Stores : \E k \in DOMAIN chunks[s], j \in DOMAIN evictLog :
        /\ evictLog[j].storeId = s /\ evictLog[j].index = chunks[s][k].index
        /\ evictLog[j].size # chunks[s][k].size

\* the indices of the chunks a store has registered in the tracker
C38_RegisteredIn(ch, s) == { ch[s][k].index : k \in DOMAIN ch[s] }

\* C38: an index that was evicted and is put again on the same store is resident
\* again: the put that clears its evicted marker (and whose buffer the underlying
\* store accepts) leaves it registered in the budget with the new counter value, and a
\* get that follows returns its data; and at all times no index of a store is both
\* marked evicted and registered.
C38_ReputIsResident ==
  [][\A s \in Stores :
       /\ evictedChunks'[s] \cap C38_RegisteredIn(chunks', s) = {}
       /\ \A i \in evictedChunks[s] \ evictedChunks'[s] :
            <<s, i>> \notin pendingErr' =>
               /\ accessCounter' > accessCounter
               /\ \E k \in DOMAIN chunks'[s] :
                     chunks'[s][k].index = i /\ chunks'[s][k].lastUsed = accessCounter'
               /\ i \in stored'[s] /\ ~closed'[s]]_vars

\* C39: when a pending wait resolves, by readiness or by timeout, its listeners are
\* removed from the torrent and its timer is cleared in the same step; afterwards no
\* notification and no timer changes the result or resolves it again, and the torrent
\* has as many listeners as before the wait.
C39_ResolveCleansUp ==
  [][\A r \in Requests :
       /\ (~isResolved[r] /\ isResolved'[r]) =>
             /\ subscribed[r] /\ ~subscribed'[r]
             /\ ~timerArmed'[r]
             /\ resolveCount'[r] = resolveCount[r] + 1
             /\ resolvedBy'[r] \in {"download", "timeout"}
       /\ isResolved[r] =>
             /\ isResolved'[r]
             /\ ~subscribed'[r] /\ ~timerArmed'[r]
             /\ resolveCount'[r] = resolveCount[r]
             /\ resolvedBy'[r] = resolvedBy[r]]_vars

\* a wait resolved by a download notification, and the torrent went on downloading
\* pieces the request did not wait for
C39_Witness ==
  \E r \in Requests :
    /\ isResolved[r] /\ resolvedBy[r] = "download" /\ resolveCount[r] = 1
    /\ ~subscribed[r] /\ ~timerArmed[r]
    /\ \A p \in PieceIds : pieces[p] = "done"
    /\ RequiredPieces(r) # PieceIds

\* C40: add resolves for a magnet only after the metadata of its torrent has been
\* received: an add issued while another add for the same magnet is waiting for the
\* metadata creates no second torrent in the client and does not resolve before the
\* metadata; and when the metadata fails or times out, the magnet is out of the active
\* set and no add issued for it during the wait has resolved.
C40_AddWaitsForMetadata ==
  chk.fn = "add" =>
    \A c \in AddCalls :
       /\ chk.calls[c].joined => ~chk.calls[c].created
       /\ chk.calls[c].state = "resolved" => chk.calls[c].hadMetadata
       /\ chk.calls[c].state = "rejected" =>
            \A b \in AddCalls :
               (b > c /\ chk.calls[b].magnet = chk.calls[c].magnet /\ chk.calls[b].joined)
                 => chk.calls[b].state = "rejected"

====
